---- MODULE Spec2Model ----
(***************************************************************************)
(* A model of the upload pipeline of the fake GCS server: the object store *)
(* (fakestorage/object.go) and the upload handlers with the resumable      *)
(* session table (the upload source file).                                 *)
(*                                                                         *)
(* Go strings are modelled as sequences of one-character strings, so that  *)
(* prefixes, splitting and byte-wise comparison are computed as the code   *)
(* computes them.  Byte slices are sequences of small naturals.            *)
(***************************************************************************)
EXTENDS Integers, Sequences, FiniteSets, TLC

VARIABLES
    buckets,   \* s.buckets: bucket name -> list of objects (a Go map of slices)
    uploads,   \* s.uploads: upload id -> partial object (a sync.Map)
    issued,    \* the upload ids generateUploadID has handed out so far
    last,      \* the request served last and the response it got
    pc,        \* per goroutine: its position inside CreateObject
    held,      \* the goroutine that has taken s.mtx for writing, or 0
    rw,        \* s.mtx's readers: those counted in, and those a writer waits for
    local,     \* per goroutine: the locals obj and index of CreateObject
    client     \* per upload id: the well-behaved client driving that session

vars == <<buckets, uploads, issued, last, pc, held, rw, local, client>>

(***************************************************************************)
(* Strings                                                                 *)
(***************************************************************************)

\* The byte value of a character (ASCII), for Go's byte-wise string order.
Ord(c) ==
    CASE c = " " -> 32 [] c = "*" -> 42 [] c = "+" -> 43 [] c = "-" -> 45
      [] c = "/" -> 47
      [] c = "0" -> 48 [] c = "1" -> 49 [] c = "2" -> 50 [] c = "3" -> 51
      [] c = "4" -> 52 [] c = "5" -> 53 [] c = "6" -> 54 [] c = "7" -> 55
      [] c = "8" -> 56 [] c = "9" -> 57
      [] c = "a" -> 97 [] c = "b" -> 98 [] c = "c" -> 99 [] c = "d" -> 100
      [] c = "e" -> 101 [] c = "o" -> 111 [] c = "s" -> 115 [] c = "t" -> 116
      [] c = "x" -> 120 [] c = "y" -> 121

\* Go's s < t on strings: lexicographic on bytes, a proper prefix is smaller.
RECURSIVE StrLess(_, _)
StrLess(s, t) ==
    IF t = <<>> THEN FALSE
    ELSE IF s = <<>> THEN TRUE
    ELSE IF Ord(Head(s)) # Ord(Head(t)) THEN Ord(Head(s)) < Ord(Head(t))
    ELSE StrLess(Tail(s), Tail(t))

\* strings.HasPrefix
HasPrefix(s, prefix) ==
    /\ Len(s) >= Len(prefix)
    /\ SubSeq(s, 1, Len(prefix)) = prefix

\* strings.Index: the 0-based index of the first occurrence of sub in s, or -1.
Index(s, sub) ==
    LET hits == {i \in 0..(Len(s) - Len(sub)) : SubSeq(s, i + 1, i + Len(sub)) = sub}
    IN  IF hits = {} THEN -1
        ELSE CHOOSE i \in hits : \A j \in hits : i <= j

\* strings.Contains
Contains(s, sub) == Index(s, sub) >= 0

\* strings.Replace(s, old, "", 1): the first occurrence of old removed.  An
\* empty old matches at the start and replacing it by "" changes nothing.
ReplaceFirstByEmpty(s, old) ==
    LET i == Index(s, old)
    IN  IF old = <<>> \/ i < 0 THEN s
        ELSE SubSeq(s, 1, i) \o SubSeq(s, i + Len(old) + 1, Len(s))

(***************************************************************************)
(* Object store (fakestorage/object.go)                                    *)
(***************************************************************************)

\* Object.id
id(o) == o.BucketName \o <<"/">> \o o.Name

\* s.buckets[name]: the nil slice for a bucket the map does not hold.
bucketSlice(bs, name) == IF name \in DOMAIN bs THEN bs[name] ELSE <<>>

\* The map with m[k] = v.
MapSet(m, k, v) == [x \in DOMAIN m \cup {k} |-> IF x = k THEN v ELSE m[x]]

\* Server.findObject: the 0-based index of the first object with obj's id, or -1.
findObject(bs, obj) ==
    LET objs == bucketSlice(bs, obj.BucketName)
        hits == {i \in 1..Len(objs) : id(obj) = id(objs[i])}
    IN  IF hits = {} THEN -1
        ELSE (CHOOSE i \in hits : \A j \in hits : i <= j) - 1

\* The two branches of Server.CreateObject, given the index findObject returned.
writeObject(bs, obj, index) ==
    LET objs == bucketSlice(bs, obj.BucketName)
    IN  IF index < 0
        THEN MapSet(bs, obj.BucketName, Append(objs, obj))
        ELSE MapSet(bs, obj.BucketName, [objs EXCEPT ![index + 1] = obj])

\* Server.CreateObject, run under the exclusive lock.
CreateObject(bs, obj) == writeObject(bs, obj, findObject(bs, obj))

\* The comparison turned round: a descending sort.
lessDescending(objects, i, j) == StrLess(objects[j + 1].Name, objects[i + 1].Name)

\* The comparison ListObjects hands to sort.Slice (0-based i, j).
less(objects, i, j) == StrLess(objects[i + 1].Name, objects[j + 1].Name)

\* The swap sort.Slice performs on the slice (0-based i, j).
swap(objects, i, j) ==
    [objects EXCEPT ![i + 1] = objects[j + 1], ![j + 1] = objects[i + 1]]

\* The inner loop of the insertion sort: for j := i; j > a && less(j, j-1); j--.
RECURSIVE sinkDown(_, _)
sinkDown(objects, j) ==
    IF j > 0 /\ less(objects, j, j - 1)
    THEN sinkDown(swap(objects, j, j - 1), j - 1)
    ELSE objects

\* sort.Slice on a slice shorter than 12: an insertion sort, in place.
RECURSIVE insertionSort(_, _)
insertionSort(objects, i) ==
    IF i >= Len(objects) THEN objects
    ELSE insertionSort(sinkDown(objects, i), i + 1)

sortSlice(objects) == insertionSort(objects, 1)

\* The filter looking for the delimiter in the whole name, prefix included.
matchesWholeName(obj, prefix, delimiter) ==
    /\ HasPrefix(obj.Name, prefix)
    /\ \/ delimiter = <<>>
       \/ ~Contains(obj.Name, delimiter)

\* The filter of ListObjects on one object.
matches(obj, prefix, delimiter) ==
    /\ HasPrefix(obj.Name, prefix)
    /\ \/ delimiter = <<>>
       \/ ~Contains(ReplaceFirstByEmpty(obj.Name, prefix), delimiter)

\* The loop of ListObjects over the sorted slice, from 1-based position i.
RECURSIVE filterObjects(_, _, _, _)
filterObjects(objects, i, prefix, delimiter) ==
    IF i > Len(objects) THEN <<>>
    ELSE (IF matches(objects[i], prefix, delimiter) THEN <<objects[i]>> ELSE <<>>)
         \o filterObjects(objects, i + 1, prefix, delimiter)

\* Server.ListObjects: the result (err, objects) and the map afterwards, whose
\* slice for the bucket has been sorted in place.
ListObjects(bs, bucketName, prefix, delimiter) ==
    IF bucketName \notin DOMAIN bs
    THEN [err |-> "bucket not found", objects |-> <<>>, buckets |-> bs]
    ELSE LET sorted == sortSlice(bs[bucketName])
         IN  [err |-> "",
              objects |-> filterObjects(sorted, 1, prefix, delimiter),
              buckets |-> [bs EXCEPT ![bucketName] = sorted]]

\* Server.GetObject: the result (object, err).
GetObject(bs, bucketName, objectName) ==
    LET obj   == [BucketName |-> bucketName, Name |-> objectName]
        index == findObject(bs, obj)
    IN  IF index < 0
        THEN [err |-> "object not found", obj |-> obj]
        ELSE [err |-> "", obj |-> bs[bucketName][index + 1]]

(***************************************************************************)
(* Bounds and input sets                                                   *)
(***************************************************************************)

NumProcs == 2          \* goroutines calling CreateObject concurrently
MaxChunk == 1          \* longest request body, in bytes
MaxContent == 2        \* longest content a session accumulates, in bytes

Procs == 1..NumProcs

ContentBytes == {97, 98}

\* The byte sequences of length at most n.
RECURSIVE BytesUpTo(_)
BytesUpTo(n) ==
    IF n = 0 THEN {<<>>}
    ELSE LET shorter == BytesUpTo(n - 1)
         IN  shorter \cup {Append(c, b) : c \in {x \in shorter : Len(x) = n - 1},
                                          b \in ContentBytes}

Bodies == BytesUpTo(MaxChunk)

(***************************************************************************)
(* Integrity digests.  A 32-bit word is a tuple of 32 bits, least          *)
(* significant first; a byte is a natural below 256.                       *)
(***************************************************************************)

\* The element of a one-element set.  In The({e : v \in {x}}) the value of x is
\* computed once, however often e uses v.
The(S) == CHOOSE r \in S : TRUE

Pow2(k) == 2 ^ k

\* The word w written out as the tuple of its 32 bits.
Bits32(w) ==
    <<w[1], w[2], w[3], w[4], w[5], w[6], w[7], w[8],
      w[9], w[10], w[11], w[12], w[13], w[14], w[15], w[16],
      w[17], w[18], w[19], w[20], w[21], w[22], w[23], w[24],
      w[25], w[26], w[27], w[28], w[29], w[30], w[31], w[32]>>

\* The natural whose eight bits are x[from .. from + 7].
Val8(x, from) ==
    x[from] + 2 * x[from + 1] + 4 * x[from + 2] + 8 * x[from + 3]
      + 16 * x[from + 4] + 32 * x[from + 5] + 64 * x[from + 6] + 128 * x[from + 7]

\* The natural whose sixteen bits are x[from .. from + 15].
Val16(x, from) == Val8(x, from) + 256 * Val8(x, from + 8)

\* The word with the given 16-bit halves.
Word(hi, lo) ==
    The({Bits32([i \in 1..32 |-> IF i <= 16 THEN (l \div Pow2(i - 1)) % 2
                                           ELSE (h \div Pow2(i - 17)) % 2]) :
         h \in {hi}, l \in {lo}})

Xor(a, b) == The({Bits32([i \in 1..32 |-> (x[i] + y[i]) % 2]) : x \in {a}, y \in {b}})
And(a, b) == The({Bits32([i \in 1..32 |-> x[i] * y[i]]) : x \in {a}, y \in {b}})
Or(a, b) ==
    The({Bits32([i \in 1..32 |-> IF x[i] + y[i] > 0 THEN 1 ELSE 0]) : x \in {a}, y \in {b}})
Not(a) == The({Bits32([i \in 1..32 |-> 1 - x[i]]) : x \in {a}})
Shr(a, k) ==
    The({Bits32([i \in 1..32 |-> IF i + n <= 32 THEN x[i + n] ELSE 0]) : x \in {a}, n \in {k}})
Rotl(a, k) ==
    The({Bits32([i \in 1..32 |-> x[((i + 31 - n) % 32) + 1]]) : x \in {a}, n \in {k}})

\* a + b modulo 2^32, added by halves with the carry.
Add32(a, b) ==
    The({The({Word((Val16(x, 17) + Val16(y, 17) + (lo \div 65536)) % 65536, lo % 65536) :
              lo \in {Val16(x, 1) + Val16(y, 1)}}) :
         x \in {a}, y \in {b}})

\* Byte k (0 = least significant) of a word.
ByteOf(a, k) == Val8(a, 8 * k + 1)

\* The Castagnoli polynomial, reversed: 0x82f63b78.
castagnoli == Word(33526, 15224)

\* One of the eight steps crc32.MakeTable takes for a table entry.
crcStep(crc) ==
    The({IF c[1] = 1 THEN Xor(Shr(c, 1), castagnoli) ELSE Shr(c, 1) : c \in {crc}})

\* crc32.MakeTable(crc32.Castagnoli)
crc32cTable ==
    [b \in 0..255 |->
        crcStep(crcStep(crcStep(crcStep(crcStep(crcStep(crcStep(crcStep(Word(0, b)))))))))]

\* The update of the running CRC by the bytes content[i..].
RECURSIVE crcUpdate(_, _, _)
crcUpdate(crc, content, i) ==
    The({IF i > Len(content) THEN c
         ELSE crcUpdate(Xor(crc32cTable[Val8(Xor(c, Word(0, content[i])), 1)], Shr(c, 8)),
                        content, i + 1) :
         c \in {crc}})

\* crc32cChecksum: the four bytes of the CRC32C of content, big-endian.
crc32cChecksum(content) ==
    The({<<ByteOf(crc, 3), ByteOf(crc, 2), ByteOf(crc, 1), ByteOf(crc, 0)>> :
         crc \in {Not(crcUpdate(Not(Word(0, 0)), content, 1))}})

\* The alphabet of base64.StdEncoding.
base64Alphabet ==
    <<"A","B","C","D","E","F","G","H","I","J","K","L","M","N","O","P",
      "Q","R","S","T","U","V","W","X","Y","Z","a","b","c","d","e","f",
      "g","h","i","j","k","l","m","n","o","p","q","r","s","t","u","v",
      "w","x","y","z","0","1","2","3","4","5","6","7","8","9","+","/">>

\* The base64 characters of the group bytes[i .. i + 2] of a sequence of n
\* bytes, the last group padded with "=".
base64Group(bytes, i, n) ==
    LET b1 == bytes[i]
        b2 == IF i + 1 <= n THEN bytes[i + 1] ELSE 0
        b3 == IF i + 2 <= n THEN bytes[i + 2] ELSE 0
    IN  <<base64Alphabet[(b1 \div 4) + 1],
          base64Alphabet[((b1 % 4) * 16 + (b2 \div 16)) + 1],
          IF i + 1 <= n THEN base64Alphabet[((b2 % 16) * 4 + (b3 \div 64)) + 1] ELSE "=",
          IF i + 2 <= n THEN base64Alphabet[(b3 % 64) + 1] ELSE "=">>

\* The groups from 1-based position i on.
RECURSIVE base64From(_, _)
base64From(bytes, i) ==
    IF i > Len(bytes) THEN <<>>
    ELSE base64Group(bytes, i, Len(bytes)) \o base64From(bytes, i + 3)

\* base64.StdEncoding.EncodeToString
base64Encode(bytes) == The({base64From(bs, 1) : bs \in {bytes}})

encodedChecksum(checksum) == base64Encode(checksum)

computeCrc32c(content) == encodedChecksum(crc32cChecksum(content))

\* The per-step left rotations of MD5 (RFC 1321).
md5Shift ==
    <<7, 12, 17, 22, 7, 12, 17, 22, 7, 12, 17, 22, 7, 12, 17, 22,
      5, 9, 14, 20, 5, 9, 14, 20, 5, 9, 14, 20, 5, 9, 14, 20,
      4, 11, 16, 23, 4, 11, 16, 23, 4, 11, 16, 23, 4, 11, 16, 23,
      6, 10, 15, 21, 6, 10, 15, 21, 6, 10, 15, 21, 6, 10, 15, 21>>

\* The per-step constants of MD5, floor(2^32 * |sin(i + 1)|), as 16-bit halves.
md5K ==
    <<
      <<55146, 42104>>, <<59591, 46934>>, <<9248, 28891>>, <<49597, 52974>>,
      <<62844, 4015>>, <<18311, 50730>>, <<43056, 17939>>, <<64838, 38145>>,
      <<27008, 39128>>, <<35652, 63407>>, <<65535, 23473>>, <<35164, 55230>>,
      <<27536, 4386>>, <<64920, 29075>>, <<42617, 17294>>, <<18868, 2081>>,
      <<63006, 9570>>, <<49216, 45888>>, <<9822, 23121>>, <<59830, 51114>>,
      <<54831, 4189>>, <<580, 5203>>, <<55457, 59009>>, <<59347, 64456>>,
      <<8673, 52710>>, <<49975, 2006>>, <<62677, 3463>>, <<17754, 5357>>,
      <<43491, 59653>>, <<64751, 41976>>, <<26479, 729>>, <<36138, 19594>>,
      <<65530, 14658>>, <<34673, 63105>>, <<28061, 24866>>, <<64997, 14348>>,
      <<42174, 59972>>, <<19422, 53161>>, <<63163, 19296>>, <<48831, 48240>>,
      <<10395, 32454>>, <<60065, 10234>>, <<54511, 12421>>, <<1160, 7429>>,
      <<55764, 53305>>, <<59099, 39397>>, <<8098, 31992>>, <<50348, 22117>>,
      <<62505, 8772>>, <<17194, 65431>>, <<43924, 9127>>, <<64659, 41017>>,
      <<25947, 22979>>, <<36620, 52370>>, <<65519, 62589>>, <<34180, 24017>>,
      <<28584, 32335>>, <<65068, 59104>>, <<41729, 17172>>, <<19976, 4513>>,
      <<63315, 32386>>, <<48442, 62005>>, <<10967, 53947>>, <<60294, 54161>>
    >>

\* The message padded as MD5 pads it: 0x80, zeros up to 56 modulo 64, then the
\* length in bits as eight little-endian bytes (the lengths here are below 2^16 bits).
md5Pad(b) ==
    The({bb \o <<128>> \o [i \in 1..((119 - (Len(bb) % 64)) % 64) |-> 0]
            \o <<(8 * Len(bb)) % 256, ((8 * Len(bb)) \div 256) % 256, 0, 0, 0, 0, 0, 0>> :
         bb \in {b}})

\* Word g (0..15) of the 64-byte block starting at 1-based offset off, little-endian.
md5Word(m, off, g) ==
    Word(m[off + 4 * g + 3] * 256 + m[off + 4 * g + 2],
         m[off + 4 * g + 1] * 256 + m[off + 4 * g])

\* The round function of step i on the words b, c, d.
md5F(b, c, d, i) ==
    IF i < 16 THEN Or(And(b, c), And(Not(b), d))
    ELSE IF i < 32 THEN Or(And(d, b), And(Not(d), c))
    ELSE IF i < 48 THEN Xor(b, Xor(c, d))
    ELSE Xor(c, Or(b, Not(d)))

\* The index of the message word step i takes.
md5G(i) ==
    IF i < 16 THEN i
    ELSE IF i < 32 THEN (5 * i + 1) % 16
    ELSE IF i < 48 THEN (3 * i + 5) % 16
    ELSE (7 * i) % 16

\* Step i (0..63) of the compression of one block, on the state <<a, b, c, d>>.
md5Step(st, m, off, i) ==
    The({<<s[4],
           Add32(s[2],
                 Rotl(Add32(Add32(md5F(s[2], s[3], s[4], i), s[1]),
                            Add32(Word(md5K[i + 1][1], md5K[i + 1][2]),
                                  md5Word(m, off, md5G(i)))),
                      md5Shift[i + 1])),
           s[2], s[3]>> :
         s \in {st}})

\* Steps i .. i + n - 1 of the compression.
RECURSIVE md5Steps(_, _, _, _, _)
md5Steps(st, m, off, i, n) ==
    The({IF n = 0 THEN s ELSE md5Steps(md5Step(s, m, off, i), m, off, i + 1, n - 1) :
         s \in {st}})

\* The four rounds of sixteen steps on one block.
md5Rounds(st, m, off) ==
    md5Steps(md5Steps(md5Steps(md5Steps(st, m, off, 0, 16), m, off, 16, 16),
                      m, off, 32, 16), m, off, 48, 16)

\* The blocks of the padded message m from 1-based offset off on.
RECURSIVE md5Blocks(_, _, _)
md5Blocks(st, m, off) ==
    The({IF off > Len(m) THEN s
         ELSE The({md5Blocks(<<Add32(s[1], r[1]), Add32(s[2], r[2]),
                               Add32(s[3], r[3]), Add32(s[4], r[4])>>, m, off + 64) :
                   r \in {md5Rounds(s, m, off)}}) :
         s \in {st}})

\* md5Hash: the sixteen bytes of the MD5 digest of b.
md5Hash(b) ==
    The({<<ByteOf(st[1], 0), ByteOf(st[1], 1), ByteOf(st[1], 2), ByteOf(st[1], 3),
           ByteOf(st[2], 0), ByteOf(st[2], 1), ByteOf(st[2], 2), ByteOf(st[2], 3),
           ByteOf(st[3], 0), ByteOf(st[3], 1), ByteOf(st[3], 2), ByteOf(st[3], 3),
           ByteOf(st[4], 0), ByteOf(st[4], 1), ByteOf(st[4], 2), ByteOf(st[4], 3)>> :
         st \in {The({md5Blocks(<<Word(26437, 8961), Word(61389, 43913),
                                  Word(39098, 56574), Word(4146, 21622)>>, m, 1) :
                      m \in {md5Pad(b)}})}})

encodedHash(hash) == base64Encode(hash)

computeMd5(content) == encodedHash(md5Hash(content))

\* The contents the model digests: every byte sequence up to the longest content.
Contents == BytesUpTo(MaxContent)

\* The digests of these contents, computed once: pairs <<content, crc32c, md5>>.
DigestTable == {<<c, computeCrc32c(c), computeMd5(c)>> : c \in Contents}

digestsOf(content) == CHOOSE d \in DigestTable : d[1] = content

\* encodedCrc32cChecksum: the base64 of the CRC32C of content.
encodedCrc32cChecksum(content) ==
    IF content \in Contents THEN digestsOf(content)[2] ELSE computeCrc32c(content)

\* encodedMd5Hash: the base64 of the MD5 of content.
encodedMd5Hash(content) ==
    IF content \in Contents THEN digestsOf(content)[3] ELSE computeMd5(content)

(***************************************************************************)
(* Content-Range parsing                                                   *)
(***************************************************************************)

Digits == <<"0", "1", "2", "3", "4", "5", "6", "7", "8", "9">>

IsDigit(c) == \E d \in 1..10 : Digits[d] = c

DigitVal(c) == (CHOOSE d \in 1..10 : Digits[d] = c) - 1

\* The value of a non-empty sequence of digits.
RECURSIVE DigitsVal(_)
DigitsVal(s) ==
    IF s = <<>> THEN 0
    ELSE 10 * DigitsVal(SubSeq(s, 1, Len(s) - 1)) + DigitVal(s[Len(s)])

\* strconv.Atoi: an optional sign and at least one digit; 0 with an error otherwise.
Atoi(s) ==
    LET signed == s # <<>> /\ s[1] \in {"+", "-"}
        body   == IF signed THEN Tail(s) ELSE s
    IN  IF body = <<>> \/ \E i \in 1..Len(body) : ~IsDigit(body[i])
        THEN [err |-> TRUE, val |-> 0]
        ELSE [err |-> FALSE,
              val |-> IF signed /\ s[1] = "-" THEN 0 - DigitsVal(body) ELSE DigitsVal(body)]

\* The decimal digits of a natural.
RECURSIVE NatStr(_)
NatStr(n) == IF n < 10 THEN <<Digits[n + 1]>> ELSE NatStr(n \div 10) \o <<Digits[(n % 10) + 1]>>

\* fmt's %d of an int.
Itoa(n) == IF n < 0 THEN <<"-">> \o NatStr(0 - n) ELSE NatStr(n)

\* strings.SplitN(s, sep, 2) for a non-empty sep.
SplitN2(s, sep) ==
    LET i == Index(s, sep)
    IN  IF i < 0 THEN <<s>>
        ELSE <<SubSeq(s, 1, i), SubSeq(s, i + Len(sep) + 1, Len(s))>>

bytesPrefix == <<"b", "y", "t", "e", "s", " ">>

\* The zero value of contentRange.
zeroContentRange ==
    [KnownRange |-> FALSE, KnownTotal |-> FALSE, Start |-> 0, End |-> 0, Total |-> 0]

\* The total processed without requiring that the range or the total is known.
parseTotalLenient(p, total) ==
    IF total = <<"*">>
    THEN [err |-> FALSE, parsed |-> [p EXCEPT !.Total = -1]]
    ELSE LET t == Atoi(total)
         IN  [err |-> t.err, parsed |-> [p EXCEPT !.KnownTotal = TRUE, !.Total = t.val]]

\* The total processed with an unknown total left at the zero value.
parseTotalZero(p, total) ==
    IF total = <<"*">>
    THEN [err |-> ~p.KnownRange, parsed |-> p]
    ELSE LET t == Atoi(total)
         IN  [err |-> t.err, parsed |-> [p EXCEPT !.KnownTotal = TRUE, !.Total = t.val]]

\* parseContentRange, after the range has been processed into p: the total.
parseTotal(p, total) ==
    IF total = <<"*">>
    THEN IF ~p.KnownRange
         THEN [err |-> TRUE, parsed |-> [p EXCEPT !.Total = -1]]
         ELSE [err |-> FALSE, parsed |-> [p EXCEPT !.Total = -1]]
    ELSE LET t == Atoi(total)
         IN  [err |-> t.err, parsed |-> [p EXCEPT !.KnownTotal = TRUE, !.Total = t.val]]

\* parseContentRange: (parsed, err).
parseContentRange(r) ==
    IF ~HasPrefix(r, bytesPrefix)
    THEN [err |-> TRUE, parsed |-> zeroContentRange]
    ELSE LET parts == SplitN2(SubSeq(r, Len(bytesPrefix) + 1, Len(r)), <<"/">>)
         IN  IF Len(parts) # 2
             THEN [err |-> TRUE, parsed |-> zeroContentRange]
             ELSE IF parts[1] = <<"*">>
             THEN parseTotal([zeroContentRange EXCEPT !.Start = -1, !.End = -1], parts[2])
             ELSE LET rangeParts == SplitN2(parts[1], <<"-">>)
                  IN  IF Len(rangeParts) # 2
                      THEN [err |-> TRUE, parsed |-> zeroContentRange]
                      ELSE LET st == Atoi(rangeParts[1])
                               en == Atoi(rangeParts[2])
                               p1 == [zeroContentRange EXCEPT !.KnownRange = TRUE,
                                                              !.Start = st.val]
                           IN  IF st.err THEN [err |-> TRUE, parsed |-> p1]
                               ELSE IF en.err THEN [err |-> TRUE, parsed |-> p1]
                               ELSE parseTotal([p1 EXCEPT !.End = en.val], parts[2])

(***************************************************************************)
(* Upload handlers.  An Object carries BucketName, Name, Content, Crc32c   *)
(* and Md5Hash; its content type, content encoding, ACL and metadata are   *)
(* copied through by the handlers and are left out.  A response is the     *)
(* jsonResponse of the handler: status (0 when the handler sets none),     *)
(* errorMessage, data (<<obj>> or <<>>) and the headers it sets.           *)
(***************************************************************************)

StatusOK == 200
StatusPermanentRedirect == 308
StatusBadRequest == 400
StatusNotFound == 404
StatusPreconditionFailed == 412
StatusNotImplemented == 501

noHeader == [Range |-> <<>>, Override |-> "", Location |-> 0]

jsonResponse(status, errorMessage, data, header) ==
    [status |-> status, errorMessage |-> errorMessage, data |-> data, header |-> header,
     panic |-> FALSE]

\* The handler did not return: it dereferenced a nil pointer and panicked.
handlerPanic == [jsonResponse(0, "", <<>>, noHeader) EXCEPT !.panic = TRUE]

\* The outcome of a handler: the two tables afterwards and the response.
outcome(ups, bs, resp) == [uploads |-> ups, buckets |-> bs, resp |-> resp]

\* The session left in the table.
uploadsKeep(ups, uploadID) == ups

\* s.uploads.Delete
uploadsDelete(ups, uploadID) == [t \in DOMAIN ups \ {uploadID} |-> ups[t]]

\* s.backend.GetBucket succeeds: the bucket exists.
bucketExists(bs, bucketName) == bucketName \in DOMAIN bs

\* s.backend.GetObject succeeds: the store holds the object.
objectExists(bs, bucketName, objectName) ==
    GetObject(bs, bucketName, objectName).err = ""

\* s.createObject: hands the object to the store's CreateObject.
createObject(bs, obj) == CreateObject(bs, obj)

\* The Object literal of simpleUpload, signedUpload and multipartUpload.
newObject(bucketName, name, content) ==
    [BucketName |-> bucketName, Name |-> name, Content |-> content,
     Crc32c |-> encodedCrc32cChecksum(content), Md5Hash |-> encodedMd5Hash(content)]

\* The chunk put in place of the session's content.
replaceChunk(obj, content) ==
    [obj EXCEPT !.Content = content,
                !.Crc32c = encodedCrc32cChecksum(content),
                !.Md5Hash = encodedMd5Hash(content)]

\* The chunk appended and the digests taken of the chunk alone.
appendChunkDigests(obj, content) ==
    [obj EXCEPT !.Content = obj.Content \o content,
                !.Crc32c = encodedCrc32cChecksum(content),
                !.Md5Hash = encodedMd5Hash(content)]

\* uploadFileContent: the chunk appended to the session's object and the
\* digests recomputed over the whole content.
appendChunk(obj, content) ==
    LET all == obj.Content \o content
    IN  [obj EXCEPT !.Content = all,
                    !.Crc32c = encodedCrc32cChecksum(all),
                    !.Md5Hash = encodedMd5Hash(all)]

\* The commit test that asks for the end to reach the total itself.
commitPastTotal(parsed) ==
    IF parsed.KnownRange
    THEN parsed.KnownTotal /\ (parsed.End >= parsed.Total)
    ELSE TRUE

\* The commit test without the total being known.
commitKnownRange(parsed) ==
    IF parsed.KnownRange THEN parsed.End + 1 >= parsed.Total ELSE TRUE

\* uploadFileContent: whether a successfully parsed Content-Range commits.
commitParsed(parsed) ==
    IF parsed.KnownRange
    THEN parsed.KnownTotal /\ (parsed.End + 1 >= parsed.Total)
    ELSE TRUE

\* uploadFileContent: the Range response header for a parsed Content-Range.
rangeHeader(parsed, obj) ==
    IF parsed.KnownRange
    THEN <<"b", "y", "t", "e", "s", "=", "0", "-">> \o Itoa(parsed.End)
    ELSE <<"b", "y", "t", "e", "s", "=", "0", "-">> \o Itoa(Len(obj.Content))

\* uploadFileContent: the commit branch.
commitUpload(ups, bs, uploadID, obj, header) ==
    outcome(uploadsDelete(ups, uploadID), createObject(bs, obj),
            jsonResponse(StatusOK, "", <<obj>>, header))

\* The session kept and answered 308 whatever the request's headers.
keepUploadRedirect(ups, bs, uploadID, obj, header, no308) ==
    outcome(MapSet(ups, uploadID, obj), bs,
            jsonResponse(StatusPermanentRedirect, "", <<obj>>, header))

\* The session kept and its object created in the store all the same.
keepUploadStored(ups, bs, uploadID, obj, header, no308) ==
    outcome(MapSet(ups, uploadID, obj), createObject(bs, obj),
            IF no308
            THEN jsonResponse(StatusOK, "", <<obj>>, [header EXCEPT !.Override = "308"])
            ELSE jsonResponse(StatusPermanentRedirect, "", <<obj>>, header))

\* uploadFileContent: the branch that keeps the session.
keepUpload(ups, bs, uploadID, obj, header, no308) ==
    outcome(MapSet(ups, uploadID, obj), bs,
            IF no308
            THEN jsonResponse(StatusOK, "", <<obj>>, [header EXCEPT !.Override = "308"])
            ELSE jsonResponse(StatusPermanentRedirect, "", <<obj>>, header))

\* uploadFileContent from the Content-Range header on: obj is the session's
\* object with the chunk appended.
answerChunk(ups, bs, uploadID, obj, contentRange, pr, no308) ==
    IF contentRange # <<>>
    THEN IF pr.err
         THEN outcome(ups, bs,
                      jsonResponse(StatusBadRequest, "invalid Content-Range", <<>>, noHeader))
         ELSE IF commitParsed(pr.parsed)
         THEN commitUpload(ups, bs, uploadID, obj,
                           [noHeader EXCEPT !.Range = rangeHeader(pr.parsed, obj)])
         ELSE keepUpload(ups, bs, uploadID, obj,
                         [noHeader EXCEPT !.Range = rangeHeader(pr.parsed, obj)], no308)
    ELSE commitUpload(ups, bs, uploadID, obj, noHeader)

\* Server.uploadFileContent.  contentRange is r.Header.Get("Content-Range"),
\* empty when the header is absent; readErr says loadContent failed.
uploadFileContent(ups, bs, uploadID, content, readErr, contentRange, no308) ==
    IF uploadID \notin DOMAIN ups
    THEN outcome(ups, bs, jsonResponse(StatusNotFound, "", <<>>, noHeader))
    ELSE IF readErr
    THEN outcome(ups, bs, jsonResponse(0, "read error", <<>>, noHeader))
    ELSE answerChunk(ups, bs, uploadID, appendChunk(ups[uploadID], content),
                     contentRange, parseContentRange(contentRange), no308)

\* Server.resumableUpload.  name is the query parameter, metaErr says the JSON
\* body failed to decode, metaName is the name in the metadata, uploadID is the
\* id generateUploadID draws and randErr says it failed.
resumableUpload(ups, bs, bucketName, name, metaErr, metaName, uploadID, randErr) ==
    IF metaErr
    THEN outcome(ups, bs, jsonResponse(0, "invalid metadata", <<>>, noHeader))
    ELSE LET objName == IF name = <<>> THEN metaName ELSE name
             obj     == [BucketName |-> bucketName, Name |-> objName, Content |-> <<>>,
                         Crc32c |-> <<>>, Md5Hash |-> <<>>]
         IN  IF randErr
             THEN outcome(ups, bs, jsonResponse(0, "rand error", <<>>, noHeader))
             ELSE outcome(MapSet(ups, uploadID, obj), bs,
                          jsonResponse(0, "", <<obj>>,
                                       [noHeader EXCEPT !.Location = uploadID]))

\* The end of simpleUpload, signedUpload and multipartUpload: the object is
\* created and answered.
storeObject(ups, bs, obj) ==
    outcome(ups, createObject(bs, obj), jsonResponse(0, "", <<obj>>, noHeader))

\* Server.simpleUpload
simpleUpload(ups, bs, bucketName, name, content, readErr) ==
    IF name = <<>>
    THEN outcome(ups, bs, jsonResponse(StatusBadRequest,
                                       "name is required for simple uploads",
                                       <<>>, noHeader))
    ELSE IF readErr
    THEN outcome(ups, bs, jsonResponse(0, "read error", <<>>, noHeader))
    ELSE storeObject(ups, bs, newObject(bucketName, name, content))

\* Server.signedUpload: the name comes from the routed path.
signedUpload(ups, bs, bucketName, name, content, readErr) ==
    IF readErr
    THEN outcome(ups, bs, jsonResponse(0, "read error", <<>>, noHeader))
    ELSE storeObject(ups, bs, newObject(bucketName, name, content))

\* The precondition check with the not-implemented case tested first.
checkNotImplementedFirst(bs, ifGenerationMatch, ifGenerationNotMatch, bucketName, objectName) ==
    IF (ifGenerationMatch # "" /\ ifGenerationMatch # "0") \/ ifGenerationNotMatch # ""
    THEN StatusNotImplemented
    ELSE IF ifGenerationMatch = "0" /\ objectExists(bs, bucketName, objectName)
    THEN StatusPreconditionFailed
    ELSE 0

\* Server.checkUploadPreconditions: the status of the response it returns, or 0
\* for nil.
checkUploadPreconditions(bs, ifGenerationMatch, ifGenerationNotMatch, bucketName, objectName) ==
    IF ifGenerationMatch = "0"
    THEN IF objectExists(bs, bucketName, objectName) THEN StatusPreconditionFailed ELSE 0
    ELSE IF ifGenerationMatch # "" \/ ifGenerationNotMatch # ""
    THEN StatusNotImplemented
    ELSE 0

\* The loop of multipartUpload over the sections from 1-based position i.  A
\* section is [jsonErr, Name, data]: jsonErr is the error of decoding it as
\* metadata ("" for none, "EOF" for an empty section, which the decoder answers
\* with io.EOF), Name the name it then holds, data its bytes.  metadata is <<>>
\* while the pointer is nil.  tailErr says the reader ends with an error other
\* than io.EOF.  The result's err says the loop ended with an error other than
\* io.EOF.
RECURSIVE readParts(_, _, _, _, _)
readParts(parts, i, metadata, content, tailErr) ==
    IF i > Len(parts)
    THEN [err |-> tailErr, metadata |-> metadata, content |-> content]
    ELSE IF metadata = <<>>
    THEN IF parts[i].jsonErr = ""
         THEN readParts(parts, i + 1, <<[Name |-> parts[i].Name]>>, content, tailErr)
         ELSE [err |-> parts[i].jsonErr # "EOF", metadata |-> <<[Name |-> <<>>]>>,
               content |-> content]
    ELSE readParts(parts, i + 1, metadata, parts[i].data, tailErr)

\* Server.multipartUpload.  ctypeErr says mime.ParseMediaType failed; name,
\* ifGenerationMatch and ifGenerationNotMatch are the query parameters.
multipartUpload(ups, bs, bucketName, ctypeErr, parts, tailErr, name, ifGenerationMatch, ifGenerationNotMatch) ==
    IF ctypeErr
    THEN outcome(ups, bs, jsonResponse(StatusBadRequest, "invalid Content-Type header",
                                       <<>>, noHeader))
    ELSE LET read == readParts(parts, 1, <<>>, <<>>, tailErr)
         IN  IF read.err
             THEN outcome(ups, bs, jsonResponse(0, "multipart error", <<>>, noHeader))
             ELSE IF name = <<>> /\ read.metadata = <<>>
             THEN outcome(ups, bs, handlerPanic)          \* metadata.Name on nil
             ELSE LET objName == IF name = <<>> THEN read.metadata[1].Name ELSE name
                      pre     == checkUploadPreconditions(bs, ifGenerationMatch,
                                                          ifGenerationNotMatch,
                                                          bucketName, objName)
                  IN  IF pre # 0
                      THEN outcome(ups, bs,
                                   jsonResponse(pre,
                                                IF pre = StatusPreconditionFailed
                                                THEN "Precondition failed"
                                                ELSE "Precondition support not implemented",
                                                <<>>, noHeader))
                      ELSE IF read.metadata = <<>>
                      THEN outcome(ups, bs, handlerPanic)  \* metadata.ContentEncoding on nil
                      ELSE storeObject(ups, bs,
                                       newObject(bucketName, objName, read.content))

noRequest == [op |-> "none"]

(***************************************************************************)
(* Concurrent CreateObject calls: each goroutine takes s.mtx, looks the    *)
(* object up, writes it and releases the lock, one step at a time.         *)
(***************************************************************************)

\* The objects the calls store: two names in one bucket, one of them in another.
LockObjects ==
    {[BucketName |-> k[1], Name |-> k[2], Content |-> c] :
        k \in {<<<<"b">>, <<"o">>>>, <<<<"b">>, <<"d">>>>, <<<<"c">>, <<"o">>>>},
        c \in {<<97>>, <<98>>}}

\* s.mtx with no reader counted in.
noReaders == [readers |-> {}, readerWait |-> {}]

InitLock ==
    /\ buckets = <<>>
    /\ uploads = <<>>
    /\ issued = {}
    /\ last = noRequest
    /\ pc = [p \in Procs |-> "idle"]
    /\ held = 0
    /\ rw = noReaders
    /\ local = [p \in Procs |-> <<>>]
    /\ client = <<>>

\* CreateObject entered without waiting for the lock.
mtxNotTaken == TRUE

\* s.mtx.Lock() may go on: no other writer has taken the lock.
mtxFree == held = 0

\* A goroutine enters CreateObject(obj).
CreateCall(p, obj) ==
    /\ pc[p] = "idle"
    /\ pc' = [pc EXCEPT ![p] = "lock"]
    /\ local' = [local EXCEPT ![p] = [obj |-> obj, index |-> -1]]
    /\ UNCHANGED <<buckets, uploads, issued, last, held, rw, client>>

\* s.mtx.Lock(): the writer takes the lock among writers and announces itself
\* to the readers; those counted in by now are the ones it waits for, and
\* readers arriving from now on wait for its Unlock.
CreateLock(p) ==
    /\ pc[p] = "lock"
    /\ mtxFree
    /\ held' = p
    /\ rw' = [rw EXCEPT !.readerWait = rw.readers]
    /\ pc' = [pc EXCEPT ![p] = "drain"]
    /\ UNCHANGED <<buckets, uploads, issued, last, local, client>>

\* s.mtx.Lock() returns: the readers the writer waited for have left.
CreateDrain(p) ==
    /\ pc[p] = "drain"
    /\ rw.readerWait = {}
    /\ pc' = [pc EXCEPT ![p] = "find"]
    /\ UNCHANGED <<buckets, uploads, issued, last, held, rw, local, client>>

\* index := s.findObject(obj)
CreateFind(p) ==
    /\ pc[p] = "find"
    /\ local' = [local EXCEPT ![p].index = findObject(buckets, local[p].obj)]
    /\ pc' = [pc EXCEPT ![p] = "write"]
    /\ UNCHANGED <<buckets, uploads, issued, last, held, rw, client>>

\* The append or the overwrite.
CreateWrite(p) ==
    /\ pc[p] = "write"
    /\ buckets' = writeObject(buckets, local[p].obj, local[p].index)
    /\ pc' = [pc EXCEPT ![p] = "unlock"]
    /\ UNCHANGED <<uploads, issued, last, held, rw, local, client>>

\* The deferred s.mtx.Unlock()
CreateUnlock(p) ==
    /\ pc[p] = "unlock"
    /\ held' = 0
    /\ pc' = [pc EXCEPT ![p] = "idle"]
    /\ local' = [local EXCEPT ![p] = <<>>]
    /\ UNCHANGED <<buckets, uploads, issued, last, rw, client>>

NextLock ==
    \E p \in Procs :
        \/ \E obj \in LockObjects : CreateCall(p, obj)
        \/ CreateLock(p)
        \/ CreateDrain(p)
        \/ CreateFind(p)
        \/ CreateWrite(p)
        \/ CreateUnlock(p)

SpecLock == InitLock /\ [][NextLock]_vars

\* The names of the objects in a bucket's list, in order.
namesOf(objs) == [i \in 1..Len(objs) |-> objs[i].Name]

\* No two entries of any bucket's list have the same name.
UniqueNames ==
    \A b \in DOMAIN buckets :
        \A i, j \in 1..Len(buckets[b]) :
            buckets[b][i].Name = buckets[b][j].Name => i = j

\* The write of goroutine p: an overwrite in place of the entry with the
\* object's name when the bucket holds one, else an append of one entry.
UpsertStep(p) ==
    LET obj  == local[p].obj
        old  == bucketSlice(buckets, obj.BucketName)
        new  == bucketSlice(buckets', obj.BucketName)
        hits == {i \in 1..Len(old) : old[i].Name = obj.Name}
    IN  /\ \A b \in DOMAIN buckets \ {obj.BucketName} :
               b \in DOMAIN buckets' /\ buckets'[b] = buckets[b]
        /\ DOMAIN buckets' = DOMAIN buckets \cup {obj.BucketName}
        /\ IF hits # {}
           THEN /\ Len(new) = Len(old)
                /\ \A i \in 1..Len(old) :
                       new[i] = IF i \in hits THEN obj ELSE old[i]
           ELSE new = Append(old, obj)

\* C1: in every interleaving of concurrent CreateObject calls no bucket list
\* ever holds two objects with the same name, and each call's write replaces
\* the stored entry of its (bucket, name) with the new object, the count
\* unchanged, or else appends exactly one entry.
C1_UniqueUpsert ==
    /\ []UniqueNames
    /\ [][\A p \in Procs : (pc[p] = "write" /\ pc'[p] = "unlock") => UpsertStep(p)]_vars

\* A call has overwritten the stored entry of its (bucket, name) while a
\* concurrent call for the same (bucket, name) with other content waits for the
\* lock: the bucket holds one entry of that name, with the content just written.
C1_Witness ==
    \E p, q \in Procs :
        /\ p # q
        /\ pc[p] = "unlock" /\ pc[q] = "lock"
        /\ local[p].obj.BucketName = local[q].obj.BucketName
        /\ local[p].obj.Name = local[q].obj.Name
        /\ local[p].obj.Content # local[q].obj.Content
        /\ local[p].index >= 0
        /\ Cardinality({i \in 1..Len(buckets[local[p].obj.BucketName]) :
                           buckets[local[p].obj.BucketName][i].Name = local[p].obj.Name}) = 1
        /\ buckets[local[p].obj.BucketName][local[p].index + 1] = local[p].obj

(***************************************************************************)
(* The store's operations called one after another.                        *)
(***************************************************************************)

StoreBucket == <<"b">>
MissingBucket == <<"n">>
StoreNames == {<<"a", "/", "b">>, <<"a", "/", "c">>, <<"d">>, <<"a", "/", "b", "/", "c">>}
StoreObjects == [BucketName : {StoreBucket}, Name : StoreNames, Content : {<<97>>, <<98>>}]
Prefixes == {<<>>, <<"a">>, <<"a", "/">>, <<"a", "/", "b">>, <<"/">>, <<"d">>}
Delimiters == {<<>>, <<"/">>, <<"b">>}

idleProcs ==
    /\ pc = [p \in Procs |-> "idle"]
    /\ held = 0
    /\ rw = noReaders
    /\ local = [p \in Procs |-> <<>>]

InitStore ==
    /\ buckets = <<>>
    /\ uploads = <<>>
    /\ issued = {}
    /\ last = noRequest
    /\ idleProcs
    /\ client = <<>>

\* The caller takes the answer of the call served last; the next call follows.
Respond ==
    /\ last # noRequest
    /\ last' = noRequest
    /\ UNCHANGED <<buckets, uploads, issued, pc, held, rw, local, client>>

\* A call of CreateObject(obj).
StoreCreate(obj) ==
    /\ last = noRequest
    /\ buckets' = CreateObject(buckets, obj)
    /\ last' = [op |-> "create", obj |-> obj]
    /\ UNCHANGED <<uploads, issued, pc, held, rw, local, client>>

\* A call of ListObjects(bucketName, prefix, delimiter).
StoreList(bucketName, prefix, delimiter) ==
    LET r == ListObjects(buckets, bucketName, prefix, delimiter)
    IN  /\ last = noRequest
        /\ buckets' = r.buckets
        /\ last' = [op |-> "list", bucket |-> bucketName, prefix |-> prefix,
                    delimiter |-> delimiter, err |-> r.err, objects |-> r.objects]
        /\ UNCHANGED <<uploads, issued, pc, held, rw, local, client>>

\* A call of GetObject(bucketName, objectName).
StoreGet(bucketName, objectName) ==
    LET r == GetObject(buckets, bucketName, objectName)
    IN  /\ last = noRequest
        /\ last' = [op |-> "get", bucket |-> bucketName, name |-> objectName,
                    err |-> r.err, obj |-> r.obj]
        /\ UNCHANGED <<buckets, uploads, issued, pc, held, rw, local, client>>

NextStore ==
    \/ \E obj \in StoreObjects : StoreCreate(obj)
    \/ \E b \in {StoreBucket, MissingBucket}, prefix \in Prefixes, delimiter \in Delimiters :
           StoreList(b, prefix, delimiter)
    \/ \E b \in {StoreBucket, MissingBucket}, n \in StoreNames : StoreGet(b, n)
    \/ Respond

SpecStore == InitStore /\ [][NextStore]_vars

\* s starts with p.
StartsWith(s, p) == \E k \in 0..Len(s) : p = [i \in 1..k |-> s[i]]

\* s without its first n characters.
Drop(s, n) == [i \in 1..(Len(s) - n) |-> s[i + n]]

\* d occurs somewhere in s.
Occurs(s, d) == \E k \in 0..Len(s) : StartsWith(Drop(s, k), d)

\* s comes before t in byte-wise lexicographic order.
ByteLess(s, t) ==
    \E k \in 0..Len(s) :
        /\ k <= Len(t)
        /\ \A i \in 1..k : s[i] = t[i]
        /\ \/ k = Len(s) /\ k < Len(t)
           \/ k < Len(s) /\ k < Len(t) /\ Ord(s[k + 1]) < Ord(t[k + 1])

\* The objects a listing of objs with this prefix and delimiter is to return.
Listed(objs, prefix, delimiter) ==
    {objs[i] : i \in {j \in 1..Len(objs) :
        /\ StartsWith(objs[j].Name, prefix)
        /\ delimiter # <<>> => ~Occurs(Drop(objs[j].Name, Len(prefix)), delimiter)}}

\* The step is a call of ListObjects.
ListStep == last = noRequest /\ last'.op = "list"

\* What a call of ListObjects answers, given the store it ran on.
ListAnswer ==
    IF last'.bucket \notin DOMAIN buckets
    THEN last'.err # ""
    ELSE /\ last'.err = ""
         /\ {last'.objects[i] : i \in 1..Len(last'.objects)}
                = Listed(buckets[last'.bucket], last'.prefix, last'.delimiter)
         /\ \A i \in 1..(Len(last'.objects) - 1) :
                ByteLess(last'.objects[i].Name, last'.objects[i + 1].Name)

\* C9: ListObjects fails for an absent bucket and otherwise returns exactly the
\* bucket's objects whose name starts with the prefix and, for a non-empty
\* delimiter, whose name without the prefix does not contain it, in strictly
\* ascending byte-wise order of name (so each object once).
C9_ListObjects == [][ListStep => ListAnswer]_vars

\* A listing with prefix "a/" and delimiter "/" of a bucket of four objects has
\* kept two of them and dropped "a/b/c", which has the prefix, and "d".
C9_Witness ==
    /\ last.op = "list"
    /\ last.err = ""
    /\ last.prefix = <<"a", "/">>
    /\ last.delimiter = <<"/">>
    /\ Len(last.objects) = 2
    /\ Len(buckets[last.bucket]) = 4

\* The bucket a listing ran on holds exactly the objects "a/b", "a/c" and "d".
AbcdBucket ==
    /\ last'.bucket \in DOMAIN buckets
    /\ Len(buckets[last'.bucket]) = 3
    /\ {buckets[last'.bucket][i].Name : i \in 1..3}
           = {<<"a", "/", "b">>, <<"a", "/", "c">>, <<"d">>}

\* C10 as stated: on that bucket, prefix "a/" with delimiter "/" lists nothing and
\* prefix "a/" with no delimiter lists "a/b" and "a/c".
C10_AsStated ==
    [][(ListStep /\ AbcdBucket /\ last'.prefix = <<"a", "/">>) =>
          /\ last'.delimiter = <<"/">> => last'.objects = <<>>
          /\ last'.delimiter = <<>> =>
                 namesOf(last'.objects) = <<<<"a", "/", "b">>, <<"a", "/", "c">>>>]_vars

\* C10 amended: on that bucket, prefix "a/" lists "a/b" and "a/c", in this
\* order, with delimiter "/" as well as with no delimiter.
C10_ListExample ==
    [][(ListStep /\ AbcdBucket /\ last'.prefix = <<"a", "/">>
          /\ last'.delimiter \in {<<"/">>, <<>>}) =>
          namesOf(last'.objects) = <<<<"a", "/", "b">>, <<"a", "/", "c">>>>]_vars

\* The listing with prefix "a/" and delimiter "/" has run on that bucket and
\* answered two objects.
C10_Witness ==
    /\ last.op = "list"
    /\ last.prefix = <<"a", "/">>
    /\ last.delimiter = <<"/">>
    /\ last.bucket \in DOMAIN buckets
    /\ namesOf(buckets[last.bucket]) = <<<<"a", "/", "b">>, <<"a", "/", "c">>, <<"d">>>>
    /\ Len(last.objects) = 2

(***************************************************************************)
(* Resumable sessions: requests served one after another.  The bucket      *)
(* exists from the start; sessions are initiated, chunks appended, and     *)
(* simple uploads put objects in the store beside them.                    *)
(***************************************************************************)

MaxSessions == 2       \* upload ids generateUploadID hands out

UploadBucket == <<"b">>
UploadNames == {<<"o">>}
UploadIDs == 1..MaxSessions

\* A Content-Range header of the grammar: bytes <range>/<total>.
contentRangeHeader(range, total) == bytesPrefix \o range \o <<"/">> \o total

HeaderRanges ==
    {<<"*">>} \cup
    {Itoa(a) \o <<"-">> \o Itoa(b) : a \in 0..(MaxContent - 1), b \in 0..(MaxContent - 1)}

HeaderTotals == {<<"*">>} \cup {Itoa(t) : t \in 1..MaxContent}

\* Headers the parser rejects besides "bytes */*": no unit, no "/", no "-",
\* a range and a total that are no integers.
MalformedHeaders ==
    {<<"0", "-", "0", "/", "1">>,
     bytesPrefix \o <<"0", "-", "0">>,
     bytesPrefix \o <<"0", "/", "1">>,
     bytesPrefix \o <<"x", "-", "0", "/", "1">>,
     bytesPrefix \o <<"0", "-", "0", "/", "x">>}

\* The values of r.Header.Get("Content-Range"); <<>> for a request without it.
ContentRanges ==
    {<<>>} \cup MalformedHeaders
           \cup {contentRangeHeader(r, t) : r \in HeaderRanges, t \in HeaderTotals}

Init ==
    /\ buckets = [b \in {UploadBucket} |-> <<>>]
    /\ uploads = <<>>
    /\ issued = {}
    /\ last = noRequest
    /\ idleProcs
    /\ client = <<>>

\* Server.insertObject: the bucket check in front of the upload handlers.
insertObject(ups, bs, bucketName, handled) ==
    IF ~bucketExists(bs, bucketName)
    THEN outcome(ups, bs, jsonResponse(StatusNotFound, "", <<>>, noHeader))
    ELSE handled

\* POST ...?uploadType=resumable: a session is initiated.  generateUploadID
\* draws an id it has not drawn before.
Initiate(bucketName, name, metaErr, metaName, randErr) ==
    /\ last = noRequest
    /\ \E uploadID \in UploadIDs \ issued :
        \E out \in {insertObject(uploads, buckets, bucketName,
                                   resumableUpload(uploads, buckets, bucketName, name,
                                                   metaErr, metaName, uploadID, randErr))} :
            /\ uploads' = out.uploads
            /\ buckets' = out.buckets
            /\ issued' = IF out.resp.header.Location = uploadID
                         THEN issued \cup {uploadID} ELSE issued
            /\ last' = [op |-> "initiate", bucket |-> bucketName, resp |-> out.resp]
            /\ UNCHANGED <<pc, held, rw, local, client>>

\* PUT /upload/resumable/<uploadID>: a chunk is appended.  A session takes at
\* most MaxContent bytes.
AppendChunk(uploadID, content, readErr, contentRange, no308) ==
    /\ last = noRequest
    /\ uploadID \in DOMAIN uploads =>
           Len(uploads[uploadID].Content) + Len(content) <= MaxContent
    /\ \E out \in {uploadFileContent(uploads, buckets, uploadID, content, readErr,
                                      contentRange, no308)} :
        /\ uploads' = out.uploads
        /\ buckets' = out.buckets
        /\ last' = [op |-> "append", uploadID |-> uploadID, content |-> content,
                    readErr |-> readErr, contentRange |-> contentRange,
                    no308 |-> no308, resp |-> out.resp]
        /\ UNCHANGED <<issued, pc, held, rw, local, client>>

\* POST ...?uploadType=media: a simple upload.
SimpleUpload(bucketName, name, content, readErr) ==
    /\ last = noRequest
    /\ \E out \in {insertObject(uploads, buckets, bucketName,
                               simpleUpload(uploads, buckets, bucketName, name, content,
                                            readErr))} :
        /\ uploads' = out.uploads
        /\ buckets' = out.buckets
        /\ last' = [op |-> "simple", bucket |-> bucketName, name |-> name,
                    resp |-> out.resp]
        /\ UNCHANGED <<issued, pc, held, rw, local, client>>

Next ==
    \/ \E b \in {UploadBucket, MissingBucket}, name \in UploadNames \cup {<<>>},
          metaErr \in BOOLEAN, metaName \in UploadNames, randErr \in BOOLEAN :
           Initiate(b, name, metaErr, metaName, randErr)
    \/ \E uploadID \in UploadIDs, content \in Bodies, readErr \in BOOLEAN,
          contentRange \in ContentRanges, no308 \in BOOLEAN :
           AppendChunk(uploadID, content, readErr, contentRange, no308)
    \/ \E b \in {UploadBucket, MissingBucket}, name \in UploadNames \cup {<<>>},
          content \in Bodies, readErr \in BOOLEAN :
           SimpleUpload(b, name, content, readErr)
    \/ Respond

Spec == Init /\ [][Next]_vars

\* A chunk append is served in this step; last' records the request and the answer.
AppendStep == last = noRequest /\ last'.op = "append"

\* The store bs holds an object of this bucket and name with this content.
Stored(bs, bucketName, name, content) ==
    /\ bucketName \in DOMAIN bs
    /\ \E i \in 1..Len(bs[bucketName]) :
           bs[bucketName][i].Name = name /\ bs[bucketName][i].Content = content

\* The append of this step committed: the session is gone and the store holds
\* its object with the previous content followed by the chunk.
Committed ==
    /\ last'.uploadID \in DOMAIN uploads
    /\ last'.uploadID \notin DOMAIN uploads'
    /\ Stored(buckets', uploads[last'.uploadID].BucketName, uploads[last'.uploadID].Name,
              uploads[last'.uploadID].Content \o last'.content)

\* The append of this step left the session in the table and the store alone.
Kept ==
    /\ last'.uploadID \in DOMAIN uploads
    /\ last'.uploadID \in DOMAIN uploads'
    /\ buckets' = buckets

\* The headers of the grammar by kind, written out from the numbers in them:
\* the terminator bytes */N, a range with the total unknown, a range with a
\* total it reaches, and a range with a total it does not reach.
TerminatorHeaders == {contentRangeHeader(<<"*">>, Itoa(t)) : t \in 1..MaxContent}

OpenHeaders ==
    {contentRangeHeader(Itoa(a) \o <<"-">> \o Itoa(b), <<"*">>) :
        a \in 0..(MaxContent - 1), b \in 0..(MaxContent - 1)}

RangeTotals ==
    {abt \in (0..(MaxContent - 1)) \X (0..(MaxContent - 1)) \X (1..MaxContent) : TRUE}

rangeTotalHeader(abt) ==
    contentRangeHeader(Itoa(abt[1]) \o <<"-">> \o Itoa(abt[2]), Itoa(abt[3]))

CoveringHeaders == {rangeTotalHeader(abt) : abt \in {x \in RangeTotals : x[2] + 1 >= x[3]}}

PartialHeaders == {rangeTotalHeader(abt) : abt \in {x \in RangeTotals : x[2] + 1 < x[3]}}

\* The commit condition as stated: no header, the terminator, or a known range
\* with a known total that end + 1 reaches.
ShouldCommit(contentRange) ==
    \/ contentRange = <<>>
    \/ contentRange \in TerminatorHeaders
    \/ contentRange \in CoveringHeaders

\* C2: a chunk append on an existing session whose body is read commits if and
\* only if the request has no Content-Range header, or the header is the
\* terminator bytes */N, or its range is known with a known total and
\* end + 1 >= total; an append that does not commit leaves the session in the
\* table and the store unchanged, and a header bytes a-b/* never commits.
C2_CommitDecision ==
    [][(AppendStep /\ last'.uploadID \in DOMAIN uploads /\ ~last'.readErr) =>
           /\ Committed <=> ShouldCommit(last'.contentRange)
           /\ ~Committed => Kept
           /\ last'.contentRange \in OpenHeaders => Kept]_vars

\* A second chunk bytes 1-1/2 has committed a session that held one byte.
C2_Witness ==
    /\ last.op = "append"
    /\ last.contentRange = contentRangeHeader(<<"1", "-", "1">>, <<"2">>)
    /\ last.content # <<>>
    /\ last.resp.status = StatusOK
    /\ last.resp.data # <<>>
    /\ Len(last.resp.data[1].Content) = 2
    /\ last.uploadID \notin DOMAIN uploads
    /\ Stored(buckets, last.resp.data[1].BucketName, last.resp.data[1].Name,
              last.resp.data[1].Content)

\* C5: an append on a token without a session (never initiated, or already
\* committed) is answered NotFound and changes neither table; a token enters
\* the session table only by its initiation, which happens once, and leaves it
\* only by an append on it that commits; an append that does not commit keeps
\* the session, and a successful one stores back the previous content followed
\* by the chunk.
C5_SessionLifecycle ==
    /\ [](DOMAIN uploads \subseteq issued)
    /\ [][/\ (AppendStep /\ last'.uploadID \notin DOMAIN uploads) =>
                 /\ last'.resp.status = StatusNotFound
                 /\ uploads' = uploads
                 /\ buckets' = buckets
          /\ \A t \in UploadIDs :
                 /\ (t \notin DOMAIN uploads /\ t \in DOMAIN uploads') =>
                        last'.op = "initiate" /\ t \notin issued /\ t \in issued'
                 /\ (t \in DOMAIN uploads /\ t \notin DOMAIN uploads') =>
                        AppendStep /\ last'.uploadID = t /\ Committed
                 /\ t \in issued => t \in issued'
          /\ (AppendStep /\ last'.uploadID \in DOMAIN uploads /\ ~Committed) =>
                 /\ Kept
                 /\ last'.resp.data # <<>> =>
                        uploads'[last'.uploadID].Content =
                            uploads[last'.uploadID].Content \o last'.content
                 /\ last'.resp.data = <<>> => uploads' = uploads]_vars

\* An append on a token whose session an earlier append committed was answered
\* NotFound, while another session holds a chunk a non-committing append stored.
C5_Witness ==
    /\ last.op = "append"
    /\ last.resp.status = StatusNotFound
    /\ last.uploadID \in issued
    /\ last.uploadID \notin DOMAIN uploads
    /\ \E b \in DOMAIN buckets : buckets[b] # <<>>
    /\ \E t \in DOMAIN uploads : uploads[t].Content # <<>>

\* Headers parseContentRange rejects.
RejectedHeaders == MalformedHeaders \cup {contentRangeHeader(<<"*">>, <<"*">>)}

\* C6: a chunk append whose Content-Range header does not parse is answered
\* BadRequest; the session table, with the session's content and digests, and
\* the object store are what they were before the request, so that whatever is
\* served next is served as if the request had not been sent.
C6_MalformedRange ==
    [][(AppendStep /\ last'.uploadID \in DOMAIN uploads /\ ~last'.readErr
                   /\ last'.contentRange \in RejectedHeaders) =>
           /\ last'.resp.status = StatusBadRequest
           /\ last'.resp.data = <<>>
           /\ uploads' = uploads
           /\ buckets' = buckets]_vars

\* A chunk with a body and a malformed header was rejected on a session that
\* holds a byte, and the session still holds just that byte.
C6_Witness ==
    /\ last.op = "append"
    /\ last.contentRange \in RejectedHeaders
    /\ last.content # <<>>
    /\ ~last.readErr
    /\ last.resp.status = StatusBadRequest
    /\ last.uploadID \in DOMAIN uploads
    /\ Len(uploads[last.uploadID].Content) = 1
    /\ uploads[last.uploadID].Crc32c = computeCrc32c(uploads[last.uploadID].Content)

\* C7: of the appends that succeed, one that commits answers 200 without
\* X-Http-Status-Code-Override, and one that does not commit answers 308 when
\* the request has no X-Guploader-No-308 header and 200 with
\* X-Http-Status-Code-Override: 308 when it has one; an append answers a plain
\* 200 if and only if it handed the object to the store.
C7_ResponseStatus ==
    [][AppendStep =>
           /\ (last'.resp.data # <<>> /\ Committed) =>
                  last'.resp.status = StatusOK /\ last'.resp.header.Override = ""
           /\ (last'.resp.data # <<>> /\ ~Committed /\ ~last'.no308) =>
                  last'.resp.status = StatusPermanentRedirect
                      /\ last'.resp.header.Override = ""
           /\ (last'.resp.data # <<>> /\ ~Committed /\ last'.no308) =>
                  last'.resp.status = StatusOK /\ last'.resp.header.Override = "308"
           /\ (last'.resp.status = StatusOK /\ last'.resp.header.Override = "")
                  <=> Committed]_vars

\* A non-committing append with X-Guploader-No-308 was answered 200 with the
\* override header, and the session holds the chunk.
C7_Witness ==
    /\ last.op = "append"
    /\ last.no308
    /\ last.content # <<>>
    /\ last.resp.status = StatusOK
    /\ last.resp.header.Override = "308"
    /\ last.uploadID \in DOMAIN uploads
    /\ uploads[last.uploadID].Content = last.resp.data[1].Content
    /\ \A b \in DOMAIN buckets : buckets[b] = <<>>

(***************************************************************************)
(* Multipart and signed uploads into an existing bucket, served one after  *)
(* another.                                                                *)
(***************************************************************************)

MaxParts == 2          \* sections of a multipart body

InsertNames == {<<"o">>}

\* The sections a body is made of: metadata naming "o", metadata without a
\* name, an empty section, and a section that is no JSON.
Sections ==
    {[jsonErr |-> "", Name |-> <<"o">>, data |-> <<97>>],
     [jsonErr |-> "", Name |-> <<>>, data |-> <<98>>],
     [jsonErr |-> "EOF", Name |-> <<>>, data |-> <<>>],
     [jsonErr |-> "syntax", Name |-> <<>>, data |-> <<97>>]}

RECURSIVE SeqsUpTo(_, _)
SeqsUpTo(S, n) ==
    IF n = 0 THEN {<<>>}
    ELSE SeqsUpTo(S, n - 1) \cup
         {Append(q, x) : q \in {r \in SeqsUpTo(S, n - 1) : Len(r) = n - 1}, x \in S}

PartLists == SeqsUpTo(Sections, MaxParts)

\* The values of the query parameters ifGenerationMatch and ifGenerationNotMatch.
GenerationMatches == {"", "0", "1"}
GenerationNotMatches == {"", "1"}

\* POST ...?uploadType=multipart
MultipartUpload(bucketName, ctypeErr, parts, tailErr, name, ifGenerationMatch, ifGenerationNotMatch) ==
    /\ last = noRequest
    /\ \E out \in {insertObject(uploads, buckets, bucketName,
                               multipartUpload(uploads, buckets, bucketName, ctypeErr,
                                               parts, tailErr, name, ifGenerationMatch,
                                               ifGenerationNotMatch))} :
        /\ uploads' = out.uploads
        /\ buckets' = out.buckets
        /\ last' = [op |-> "multipart", bucket |-> bucketName, ctypeErr |-> ctypeErr,
                    parts |-> parts, tailErr |-> tailErr, name |-> name,
                    ifGenerationMatch |-> ifGenerationMatch,
                    ifGenerationNotMatch |-> ifGenerationNotMatch, resp |-> out.resp]
        /\ UNCHANGED <<issued, pc, held, rw, local, client>>

\* PUT on a signed URL.
SignedUpload(bucketName, name, content, readErr) ==
    /\ last = noRequest
    /\ \E out \in {insertObject(uploads, buckets, bucketName,
                               signedUpload(uploads, buckets, bucketName, name, content,
                                            readErr))} :
        /\ uploads' = out.uploads
        /\ buckets' = out.buckets
        /\ last' = [op |-> "signed", bucket |-> bucketName, name |-> name,
                    resp |-> out.resp]
        /\ UNCHANGED <<issued, pc, held, rw, local, client>>

NextInsert ==
    \/ \E b \in {UploadBucket, MissingBucket}, ctypeErr \in BOOLEAN, parts \in PartLists,
          tailErr \in BOOLEAN, name \in InsertNames \cup {<<>>},
          gm \in GenerationMatches, gnm \in GenerationNotMatches :
           MultipartUpload(b, ctypeErr, parts, tailErr, name, gm, gnm)
    \/ \E b \in {UploadBucket, MissingBucket}, name \in InsertNames, content \in Bodies,
          readErr \in BOOLEAN :
           SignedUpload(b, name, content, readErr)
    \/ Respond

SpecInsert == Init /\ [][NextInsert]_vars

\* A multipart upload is served in this step.
MultipartStep == last = noRequest /\ last'.op = "multipart"

\* Reading the sections of the request failed: the first section is no JSON, or
\* the body breaks off.
ReadFails(req) ==
    IF req.parts # <<>> /\ req.parts[1].jsonErr # ""
    THEN req.parts[1].jsonErr # "EOF"
    ELSE req.tailErr

\* The name of the object of the request: the query parameter, else the
\* metadata's.
RequestName(req) ==
    IF req.name # <<>> THEN req.name
    ELSE IF req.parts[1].jsonErr = "" THEN req.parts[1].Name ELSE <<>>

\* The content of the object of the request: the last section after the
\* metadata, if the metadata was read.
RequestContent(req) ==
    IF Len(req.parts) >= 2 /\ req.parts[1].jsonErr = ""
    THEN req.parts[Len(req.parts)].data ELSE <<>>

\* The request gets as far as the precondition check.
ReachesCheck(req) ==
    /\ req.bucket \in DOMAIN buckets
    /\ ~req.ctypeErr
    /\ ~ReadFails(req)
    /\ req.name # <<>> \/ req.parts # <<>>

\* The store held an object of the request's bucket and name before the step.
ExistedBefore(req) ==
    \E i \in 1..Len(buckets[req.bucket]) : buckets[req.bucket][i].Name = RequestName(req)

\* The check answered with this status and the store is as before.
FailsWith(status) ==
    /\ last'.resp.status = status
    /\ last'.resp.data = <<>>
    /\ buckets' = buckets

\* The check did not answer: the upload went on to build its object, which is
\* then in the store with the request's content, or, for a body without any
\* section, went on to the metadata it does not have.
Proceeds ==
    /\ last'.resp.status \notin {StatusPreconditionFailed, StatusNotImplemented}
    /\ IF last'.parts # <<>>
       THEN /\ last'.resp.data # <<>>
            /\ Stored(buckets', last'.bucket, RequestName(last'), RequestContent(last'))
       ELSE last'.resp.panic

\* C8: the precondition check of a multipart upload, in this order: with
\* ifGenerationMatch = "0" the upload fails PreconditionFailed if an object of
\* that bucket and name exists, which stays as it is, and proceeds to create
\* the object if none exists; with any other non-empty ifGenerationMatch, or a
\* non-empty ifGenerationNotMatch, it fails NotImplemented and the store is
\* unchanged; with neither parameter it proceeds.
C8_Preconditions ==
    [][(MultipartStep /\ ReachesCheck(last')) =>
           IF last'.ifGenerationMatch = "0"
           THEN IF ExistedBefore(last')
                THEN FailsWith(StatusPreconditionFailed)
                ELSE Proceeds
           ELSE IF last'.ifGenerationMatch # "" \/ last'.ifGenerationNotMatch # ""
           THEN FailsWith(StatusNotImplemented)
           ELSE Proceeds]_vars

\* An upload with ifGenerationMatch = "0" and a non-empty ifGenerationNotMatch
\* for a stored object was answered PreconditionFailed, and the object kept its
\* content, which is not the content of the request.
C8_Witness ==
    /\ last.op = "multipart"
    /\ last.ifGenerationMatch = "0"
    /\ last.ifGenerationNotMatch # ""
    /\ last.resp.status = StatusPreconditionFailed
    /\ Len(last.parts) = 2
    /\ \E i \in 1..Len(buckets[last.bucket]) :
           /\ buckets[last.bucket][i].Name = RequestName(last)
           /\ buckets[last.bucket][i].Content # RequestContent(last)

(***************************************************************************)
(* A client of the resumable protocol: it initiates a session for data it  *)
(* holds and sends the data in contiguous chunks from byte 0, each body as *)
(* long as the range it declares, either declaring the total with every    *)
(* chunk or streaming with the total unknown and a final bytes */N.  The   *)
(* variable client is the client's own record: the data, the bodies sent   *)
(* so far in order, and the number of requests sent.                       *)
(***************************************************************************)

MaxData == 3           \* bytes of the data a client uploads
MaxBody == 2           \* bytes of one chunk

ClientName == <<"o">>
ClientData == BytesUpTo(MaxData) \ {<<>>}

InitClient ==
    /\ buckets = [b \in {UploadBucket} |-> <<>>]
    /\ uploads = <<>>
    /\ issued = {}
    /\ last = noRequest
    /\ idleProcs
    /\ client = [phase |-> "idle"]

\* The client initiates the upload of data.
ClientInitiate(kind, data) ==
    /\ last = noRequest
    /\ client.phase = "idle"
    /\ \E uploadID \in UploadIDs \ issued :
        \E out \in {insertObject(uploads, buckets, UploadBucket,
                                   resumableUpload(uploads, buckets, UploadBucket, ClientName,
                                                   FALSE, <<>>, uploadID, FALSE))} :
            /\ uploads' = out.uploads
            /\ buckets' = out.buckets
            /\ issued' = issued \cup {uploadID}
            /\ last' = [op |-> "initiate", bucket |-> UploadBucket, resp |-> out.resp]
            /\ client' = [phase |-> "sending", kind |-> kind, uploadID |-> uploadID,
                          data |-> data, sent |-> <<>>, requests |-> 0]
            /\ UNCHANGED <<pc, held, rw, local>>

\* The Content-Range of the chunk of n bytes after the first sent bytes.
chunkRange(kind, sent, n, total) ==
    contentRangeHeader(Itoa(sent) \o <<"-">> \o Itoa(sent + n - 1),
                       IF kind = "known" THEN Itoa(total) ELSE <<"*">>)

\* The client sends the request with this body and Content-Range on its session.
ClientSend(content, contentRange, no308, phase) ==
    \E out \in {uploadFileContent(uploads, buckets, client.uploadID, content, FALSE,
                                  contentRange, no308)} :
        /\ uploads' = out.uploads
        /\ buckets' = out.buckets
        /\ last' = [op |-> "append", uploadID |-> client.uploadID, content |-> content,
                    readErr |-> FALSE, contentRange |-> contentRange, no308 |-> no308,
                    resp |-> out.resp]
        /\ client' = [client EXCEPT !.sent = client.sent \o content,
                                    !.requests = client.requests + 1,
                                    !.phase = phase]
        /\ UNCHANGED <<issued, pc, held, rw, local>>

\* The client sends the next n bytes of its data.
ClientChunk(n, no308) ==
    /\ last = noRequest
    /\ client.phase = "sending"
    /\ Len(client.sent) + n <= Len(client.data)
    /\ ClientSend(SubSeq(client.data, Len(client.sent) + 1, Len(client.sent) + n),
                  chunkRange(client.kind, Len(client.sent), n, Len(client.data)),
                  no308,
                  IF Len(client.sent) + n < Len(client.data) THEN "sending"
                  ELSE IF client.kind = "known" THEN "done" ELSE "ending")

\* The streaming client, its data sent, sends the terminator bytes */N with an
\* empty body.
ClientTerminate(no308) ==
    /\ last = noRequest
    /\ client.phase = "ending"
    /\ ClientSend(<<>>, contentRangeHeader(<<"*">>, Itoa(Len(client.data))), no308, "done")

NextClient ==
    \/ \E kind \in {"known", "stream"}, data \in ClientData : ClientInitiate(kind, data)
    \/ \E n \in 1..MaxBody, no308 \in BOOLEAN : ClientChunk(n, no308)
    \/ \E no308 \in BOOLEAN : ClientTerminate(no308)
    \/ Respond

SpecClient == InitClient /\ [][NextClient]_vars

\* The store bs holds an object of this bucket and name.
NameStored(bs, bucketName, name) ==
    \E i \in 1..Len(bs[bucketName]) : bs[bucketName][i].Name = name

\* After the step the client's session exists and its object is not in the store.
StillOpen ==
    /\ client.uploadID \in DOMAIN uploads'
    /\ ~NameStored(buckets', UploadBucket, ClientName)

\* After the step the session is gone and the store holds the object with the
\* bodies the client has sent, in order.
NowStored ==
    /\ client.uploadID \notin DOMAIN uploads'
    /\ Stored(buckets', UploadBucket, ClientName, client'.sent)

\* C3: when a client appends contiguous chunks that all declare the total T,
\* each body as long as its range, no chunk before the last commits (the
\* session exists and the object is not in the store), the last chunk commits,
\* and the object stored is the concatenation of the bodies in order, T bytes.
C3_KnownTotal ==
    [][(AppendStep /\ client.phase = "sending" /\ client.kind = "known") =>
           IF client'.phase = "sending"
           THEN StillOpen
           ELSE NowStored /\ Len(client'.sent) = Len(client.data)
                          /\ client'.sent = client.data]_vars

\* Three bytes declared with each chunk have been sent in two or more chunks
\* and are in the store.
C3_Witness ==
    /\ client.phase = "done"
    /\ client.kind = "known"
    /\ client.requests >= 2
    /\ Len(client.data) = MaxData
    /\ last.op = "append"
    /\ Stored(buckets, UploadBucket, ClientName, client.data)

\* C4: when a client appends chunks bytes a-b/* and then the terminator
\* bytes */N with an empty body, none of the chunks commits, the terminator
\* commits, and the object stored is the concatenation of all the chunk bodies
\* of the session, in order.
C4_Streaming ==
    [][(AppendStep /\ client.phase \in {"sending", "ending"} /\ client.kind = "stream") =>
           IF client.phase = "sending"
           THEN StillOpen
           ELSE NowStored /\ last'.content = <<>> /\ client'.sent = client.data]_vars

\* Three bytes streamed in two or more chunks are in the store after the
\* terminator.
C4_Witness ==
    /\ client.phase = "done"
    /\ client.kind = "stream"
    /\ client.requests >= 3
    /\ Len(client.data) = MaxData
    /\ last.op = "append"
    /\ last.contentRange \in {contentRangeHeader(<<"*">>, Itoa(t)) : t \in 1..MaxData}
    /\ Stored(buckets, UploadBucket, ClientName, client.data)

(***************************************************************************)
(* The store's three operations called concurrently, one goroutine each,   *)
(* step by step.  s.mtx is a sync.RWMutex: RLock counts the reader in and  *)
(* waits while a writer that announced itself earlier has the lock; Lock   *)
(* waits for the readers counted in before it.  What a goroutine reads from *)
(* the bucket's slice it reads an element, and within GetObject's copy a   *)
(* field, at a time.                                                       *)
(***************************************************************************)

MaxStored == 3         \* entries of the bucket's slice

RWBucket == <<"b">>

\* The objects the calls store; the content goes with the name.
RWObjects ==
    {[BucketName |-> RWBucket, Name |-> <<"a">>, Content |-> <<97>>],
     [BucketName |-> RWBucket, Name |-> <<"c">>, Content |-> <<97, 98>>],
     [BucketName |-> RWBucket, Name |-> <<"d">>, Content |-> <<98>>]}

RWNames == {o.Name : o \in RWObjects}

RWPrefixes == {<<"a">>}

\* A goroutine enters CreateObject(obj) while the slice, with an entry for
\* every call of CreateObject under way, has room.
RWCreateCall(p, obj) ==
    /\ Len(bucketSlice(buckets, RWBucket))
         + Cardinality({q \in Procs : pc[q] \in {"lock", "drain", "find", "write"}})
           < MaxStored
    /\ CreateCall(p, obj)

\* A goroutine enters GetObject(bucketName, objectName).  existed notes whether
\* the store holds the object at this moment.
GetCall(p, bucketName, objectName) ==
    /\ pc[p] = "idle"
    /\ pc' = [pc EXCEPT ![p] = "rlock"]
    /\ local' = [local EXCEPT ![p] =
                    [op |-> "get",
                     obj |-> [BucketName |-> bucketName, Name |-> objectName],
                     existed |-> GetObject(buckets, bucketName, objectName).err = "",
                     i |-> 0, n |-> 0, index |-> -1, err |-> "", result |-> <<>>]]
    /\ UNCHANGED <<buckets, uploads, issued, last, held, rw, client>>

\* A goroutine enters ListObjects(bucketName, prefix, delimiter).
ListCall(p, bucketName, prefix, delimiter) ==
    /\ pc[p] = "idle"
    /\ pc' = [pc EXCEPT ![p] = "rlock"]
    /\ local' = [local EXCEPT ![p] =
                    [op |-> "list", bucket |-> bucketName, prefix |-> prefix,
                     delimiter |-> delimiter, i |-> 1, j |-> 1, n |-> 0, tmp |-> <<>>,
                     err |-> "", result |-> <<>>]]
    /\ UNCHANGED <<buckets, uploads, issued, last, held, rw, client>>

\* s.mtx.RLock(): the reader is counted in.
RLock(p) ==
    /\ pc[p] = "rlock"
    /\ rw' = [rw EXCEPT !.readers = rw.readers \cup {p}]
    /\ pc' = [pc EXCEPT ![p] = "rwait"]
    /\ UNCHANGED <<buckets, uploads, issued, last, held, local, client>>

\* s.mtx.RLock() returns: no writer has the lock, or the writer that has it
\* announced itself after this reader was counted in and waits for it.
RLockReturn(p) ==
    /\ pc[p] = "rwait"
    /\ held = 0 \/ p \in rw.readerWait
    /\ pc' = [pc EXCEPT ![p] = IF local[p].op = "get" THEN "gfind" ELSE "lread"]
    /\ UNCHANGED <<buckets, uploads, issued, last, held, rw, local, client>>

\* The call returns with the reader still counted in.
returnHolding(p) ==
    /\ pc[p] = "runlock"
    /\ pc' = [pc EXCEPT ![p] = "idle"]
    /\ local' = [local EXCEPT ![p] = <<>>]
    /\ UNCHANGED <<buckets, uploads, issued, last, held, rw, client>>

\* The deferred s.mtx.RUnlock(), and the return of the call.
RUnlock(p) ==
    /\ pc[p] = "runlock"
    /\ rw' = [readers |-> rw.readers \ {p}, readerWait |-> rw.readerWait \ {p}]
    /\ pc' = [pc EXCEPT ![p] = "idle"]
    /\ local' = [local EXCEPT ![p] = <<>>]
    /\ UNCHANGED <<buckets, uploads, issued, last, held, client>>

\* One round of the loop of findObject, run by GetObject: the slice is taken
\* when the loop starts, and element i is compared by its id.
GetFind(p) ==
    /\ pc[p] = "gfind"
    /\ LET l    == local[p]
           objs == bucketSlice(buckets, l.obj.BucketName)
           n    == IF l.i = 0 THEN Len(objs) ELSE l.n
       IN  IF l.i >= n
           THEN /\ local' = [local EXCEPT ![p].n = n, ![p].index = -1]
                /\ pc' = [pc EXCEPT ![p] = "gindex"]
           ELSE IF id(l.obj) = id(objs[l.i + 1])
           THEN /\ local' = [local EXCEPT ![p].n = n, ![p].index = l.i]
                /\ pc' = [pc EXCEPT ![p] = "gindex"]
           ELSE /\ local' = [local EXCEPT ![p].n = n, ![p].i = l.i + 1]
                /\ pc' = pc
    /\ UNCHANGED <<buckets, uploads, issued, last, held, rw, client>>

\* GetObject after findObject: the error for index < 0, else the copy of
\* s.buckets[bucketName][index] begins with the element's names.
GetIndex(p) ==
    /\ pc[p] = "gindex"
    /\ IF local[p].index < 0
       THEN /\ local' = [local EXCEPT ![p].err = "object not found",
                                      ![p].result = local[p].obj]
            /\ pc' = [pc EXCEPT ![p] = "runlock"]
       ELSE LET o == buckets[local[p].obj.BucketName][local[p].index + 1]
            IN  /\ local' = [local EXCEPT ![p].result =
                                [BucketName |-> o.BucketName, Name |-> o.Name]]
                /\ pc' = [pc EXCEPT ![p] = "gcopy"]
    /\ UNCHANGED <<buckets, uploads, issued, last, held, rw, client>>

\* The copy of s.buckets[bucketName][index] ends with the element's content.
GetCopy(p) ==
    /\ pc[p] = "gcopy"
    /\ LET o == buckets[local[p].obj.BucketName][local[p].index + 1]
       IN  local' = [local EXCEPT ![p].result =
                        [BucketName |-> local[p].result.BucketName,
                         Name |-> local[p].result.Name, Content |-> o.Content]]
    /\ pc' = [pc EXCEPT ![p] = "runlock"]
    /\ UNCHANGED <<buckets, uploads, issued, last, held, rw, client>>

\* ListObjects: objects, ok := s.buckets[bucketName], and the error for !ok.
ListRead(p) ==
    /\ pc[p] = "lread"
    /\ IF local[p].bucket \notin DOMAIN buckets
       THEN /\ local' = [local EXCEPT ![p].err = "bucket not found"]
            /\ pc' = [pc EXCEPT ![p] = "runlock"]
       ELSE /\ local' = [local EXCEPT ![p].n = Len(buckets[local[p].bucket]),
                                      ![p].i = 1, ![p].j = 1]
            /\ pc' = [pc EXCEPT ![p] = "lless"]
    /\ UNCHANGED <<buckets, uploads, issued, last, held, rw, client>>

\* sort.Slice, the test of the loops of its insertion sort
\*   for i := 1; i < n; i++ { for j := i; j > 0 && less(j, j-1); j-- { swap } }
\* past the last i the loop over the sorted slice begins, at element 0.
ListLess(p) ==
    /\ pc[p] = "lless"
    /\ LET l == local[p]
       IN  IF l.i >= l.n
           THEN /\ local' = [local EXCEPT ![p].i = 0]
                /\ pc' = [pc EXCEPT ![p] = "lfilter"]
           ELSE IF l.j > 0 /\ less(buckets[l.bucket], l.j, l.j - 1)
           THEN /\ local' = local
                /\ pc' = [pc EXCEPT ![p] = "lswap1"]
           ELSE /\ local' = [local EXCEPT ![p].i = l.i + 1, ![p].j = l.i + 1]
                /\ pc' = pc
    /\ UNCHANGED <<buckets, uploads, issued, last, held, rw, client>>

\* The swap of elements j and j-1, first move: tmp := objects[j].
ListSwapTmp(p) ==
    /\ pc[p] = "lswap1"
    /\ local' = [local EXCEPT ![p].tmp = buckets[local[p].bucket][local[p].j + 1]]
    /\ pc' = [pc EXCEPT ![p] = "lswap2"]
    /\ UNCHANGED <<buckets, uploads, issued, last, held, rw, client>>

\* Second move: objects[j] = objects[j-1].
ListSwapDown(p) ==
    /\ pc[p] = "lswap2"
    /\ LET b == local[p].bucket
           j == local[p].j
       IN  buckets' = [buckets EXCEPT ![b][j + 1] = buckets[b][j]]
    /\ pc' = [pc EXCEPT ![p] = "lswap3"]
    /\ UNCHANGED <<uploads, issued, last, held, rw, local, client>>

\* Third move: objects[j-1] = tmp; the inner loop goes on at j-1.
ListSwapUp(p) ==
    /\ pc[p] = "lswap3"
    /\ LET b == local[p].bucket
           j == local[p].j
       IN  buckets' = [buckets EXCEPT ![b][j] = local[p].tmp]
    /\ local' = [local EXCEPT ![p].j = local[p].j - 1, ![p].tmp = <<>>]
    /\ pc' = [pc EXCEPT ![p] = "lless"]
    /\ UNCHANGED <<uploads, issued, last, held, rw, client>>

\* One round of the loop of ListObjects over the slice: element i is copied
\* and, if it passes the filter, appended to the answer.
ListFilter(p) ==
    /\ pc[p] = "lfilter"
    /\ LET l == local[p]
       IN  IF l.i >= l.n
           THEN /\ local' = local
                /\ pc' = [pc EXCEPT ![p] = "runlock"]
           ELSE LET obj == buckets[l.bucket][l.i + 1]
                IN  /\ local' = [local EXCEPT
                           ![p].i = l.i + 1,
                           ![p].result = IF matches(obj, l.prefix, l.delimiter)
                                         THEN Append(l.result, obj) ELSE l.result]
                    /\ pc' = pc
    /\ UNCHANGED <<buckets, uploads, issued, last, held, rw, client>>

\* The steps of goroutine p inside a call it has entered.
StoreStep(p) ==
    \/ CreateLock(p)
    \/ CreateDrain(p)
    \/ CreateFind(p)
    \/ CreateWrite(p)
    \/ CreateUnlock(p)
    \/ RLock(p)
    \/ RLockReturn(p)
    \/ GetFind(p)
    \/ GetIndex(p)
    \/ GetCopy(p)
    \/ ListRead(p)
    \/ ListLess(p)
    \/ ListSwapTmp(p)
    \/ ListSwapDown(p)
    \/ ListSwapUp(p)
    \/ ListFilter(p)
    \/ RUnlock(p)

NextRW ==
    \E p \in Procs :
        \/ \E obj \in RWObjects : RWCreateCall(p, obj)
        \/ \E n \in RWNames : GetCall(p, RWBucket, n)
        \/ \E prefix \in RWPrefixes : ListCall(p, RWBucket, prefix, <<>>)
        \/ StoreStep(p)

SpecRW == InitLock /\ [][NextRW]_vars

\* The object the calls store under this name.
storedAs(name) == CHOOSE o \in RWObjects : o.Name = name

\* Goroutine p returns from GetObject in this step.
GetReturns(p) ==
    /\ pc[p] = "runlock"
    /\ pc'[p] = "idle"
    /\ local[p].op = "get"

\* C11: a GetObject call answers "object not found" only if the store did not
\* hold the object when the call started, and for an object the store held
\* when the call started it returns the object of that bucket and name with
\* the stored content, in every interleaving with ListObjects calls on the
\* bucket.
C11_GetObject ==
    [][\A p \in Procs :
          GetReturns(p) =>
              /\ local[p].err # "" => ~local[p].existed
              /\ local[p].existed =>
                     /\ local[p].err = ""
                     /\ local[p].result = storedAs(local[p].obj.Name)]_vars

\* The scheduler runs every goroutine that can take a step, and s.mtx.Lock()
\* hands the lock to a writer that keeps waiting for it (sync.Mutex does not
\* let a waiter starve).
SpecRWFair ==
    /\ SpecRW
    /\ \A p \in Procs : WF_vars(StoreStep(p)) /\ SF_vars(CreateLock(p))

\* Where a goroutine is between Lock and Unlock, and between RLock and RUnlock.
Writing(p) == pc[p] \in {"find", "write", "unlock"}
Reading(p) ==
    pc[p] \in {"gfind", "gindex", "gcopy", "lread", "lless", "lswap1", "lswap2", "lswap3",
               "lfilter", "runlock"}

\* The lock as the goroutines hold it: a goroutine inside CreateObject has it
\* for writing with no reader inside, a goroutine inside GetObject or
\* ListObjects is counted in as a reader, and a goroutine outside the store
\* holds nothing.
LockHeld ==
    \A p \in Procs :
        /\ Writing(p) => held = p /\ \A q \in Procs : ~Reading(q)
        /\ Reading(p) => p \in rw.readers
        /\ pc[p] = "idle" => held # p /\ p \notin rw.readers
        /\ pc[p] \in {"lock", "rlock"} => held # p /\ p \notin rw.readers

\* A goroutine inside a call can take a step, or waits for one that can.
NoDeadlock ==
    (\E p \in Procs : pc[p] # "idle") => \E p \in Procs : ENABLED StoreStep(p)

\* C17: CreateObject holds s.mtx exclusively, GetObject and ListObjects hold
\* it shared; a goroutine takes the lock only while it holds none and has
\* given it back when its call returns; no state is a deadlock, and under
\* fair scheduling every call that has started returns.
C17_LockDiscipline ==
    /\ [](LockHeld /\ NoDeadlock)
    /\ \A p \in Procs : (pc[p] # "idle") ~> (pc[p] = "idle")

\* A writer with an object the store holds has announced itself and waits for
\* a reader that is sorting the slice of two objects.
C17_Witness ==
    \E p, q \in Procs :
        /\ pc[p] = "drain"
        /\ rw.readerWait = {q}
        /\ pc[q] = "lswap2"
        /\ Len(buckets[RWBucket]) = 2
        /\ local[p].obj.Name \in {buckets[RWBucket][i].Name : i \in 1..2}

(***************************************************************************)
(* The four kinds of upload of one object name, served one after another:  *)
(* simple, signed and multipart uploads, and sessions initiated with       *)
(* chunks appended.                                                        *)
(***************************************************************************)

\* The Content-Range values of the appends: none, a chunk of a stream, a
\* chunk that reaches its total, the terminator, and one that does not parse.
DigestRanges ==
    {<<>>,
     contentRangeHeader(<<"0", "-", "0">>, <<"*">>),
     contentRangeHeader(<<"0", "-", "0">>, <<"1">>),
     contentRangeHeader(<<"*">>, <<"1">>),
     contentRangeHeader(<<"*">>, <<"*">>)}

NextDigest ==
    \/ \E name \in UploadNames : Initiate(UploadBucket, name, FALSE, name, FALSE)
    \/ \E uploadID \in UploadIDs, content \in Bodies, contentRange \in DigestRanges :
           AppendChunk(uploadID, content, FALSE, contentRange, FALSE)
    \/ \E name \in UploadNames, content \in Bodies :
           SimpleUpload(UploadBucket, name, content, FALSE)
    \/ \E name \in UploadNames, content \in Bodies :
           SignedUpload(UploadBucket, name, content, FALSE)
    \/ \E parts \in PartLists, name \in UploadNames \cup {<<>>} :
           MultipartUpload(UploadBucket, FALSE, parts, FALSE, name, "", "")
    \/ Respond

SpecDigest == Init /\ [][NextDigest]_vars

\* The digests of the byte strings of a and b up to three bytes, as the
\* reference implementations of CRC32C and MD5 give them, in standard base64:
\* <<content, crc32c, md5>>.
KnownDigests ==
    {<<<<>>,
       <<"A", "A", "A", "A", "A", "A", "=", "=">>,
       <<"1", "B", "2", "M", "2", "Y", "8", "A", "s", "g", "T", "p", "g", "A", "m", "Y", "7", "P", "h", "C", "f", "g", "=", "=">>>>,
     <<<<97>>,
       <<"w", "d", "B", "D", "M", "A", "=", "=">>,
       <<"D", "M", "F", "1", "u", "c", "D", "x", "t", "q", "g", "x", "w", "5", "n", "i", "a", "X", "c", "m", "Y", "Q", "=", "=">>>>,
     <<<<98>>,
       <<"0", "o", "C", "w", "x", "A", "=", "=">>,
       <<"k", "u", "t", "f", "/", "u", "a", "u", "L", "+", "w", "6", "1", "x", "x", "3", "d", "T", "F", "X", "j", "w", "=", "=">>>>,
     <<<<97, 97>>,
       <<"8", "f", "L", "a", "w", "g", "=", "=">>,
       <<"Q", "S", "S", "8", "C", "p", "M", "1", "w", "n", "8", "I", "b", "y", "S", "6", "I", "H", "p", "J", "E", "g", "=", "=">>>>,
     <<<<97, 98>>,
       <<"4", "q", "I", "p", "N", "g", "=", "=">>,
       <<"G", "H", "7", "0", "Q", "2", "E", "i", "0", "c", "w", "v", "Q", "N", "w", "r", "k", "v", "D", "r", "o", "A", "=", "=">>>>,
     <<<<98, 97>>,
       <<"x", "R", "V", "y", "W", "w", "=", "=">>,
       <<"B", "x", "W", "c", "R", "+", "4", "b", "G", "a", "5", "P", "u", "c", "Q", "N", "S", "A", "h", "W", "x", "A", "=", "=">>>>,
     <<<<98, 98>>,
       <<"1", "k", "W", "B", "r", "w", "=", "=">>,
       <<"I", "a", "0", "L", "2", "D", "a", "5", "D", "Q", "j", "0", "z", "2", "Q", "L", "T", "C", "m", "O", "f", "A", "=", "=">>>>,
     <<<<97, 97, 97>>,
       <<"4", "5", "f", "n", "2", "Q", "=", "=">>,
       <<"R", "7", "z", "l", "x", "0", "9", "Y", "n", "0", "h", "n", "2", "9", "V", "+", "n", "K", "n", "4", "C", "A", "=", "=">>>>,
     <<<<97, 97, 98>>,
       <<"8", "M", "c", "U", "L", "Q", "=", "=">>,
       <<"5", "i", "W", "V", "7", "p", "i", "1", "h", "R", "U", "9", "r", "I", "f", "O", "G", "r", "a", "c", "P", "A", "=", "=">>>>,
     <<<<97, 98, 97>>,
       <<"1", "3", "B", "P", "Q", "A", "=", "=">>,
       <<"e", "a", "+", "H", "c", "j", "3", "C", "l", "f", "l", "b", "2", "y", "d", "6", "Y", "R", "i", "a", "K", "g", "=", "=">>>>,
     <<<<97, 98, 98>>,
       <<"x", "C", "C", "8", "t", "A", "=", "=">>,
       <<"6", "g", "H", "l", "/", "Y", "5", "N", "i", "D", "K", "C", "W", "s", "3", "S", "D", "q", "x", "R", "B", "A", "=", "=">>>>,
     <<<<98, 97, 97>>,
       <<"C", "b", "k", "n", "q", "g", "=", "=">>,
       <<"j", "N", "z", "a", "e", "a", "j", "c", "Z", "q", "p", "s", "c", "R", "y", "a", "A", "A", "s", "K", "w", "A", "=", "=">>>>,
     <<<<98, 97, 98>>,
       <<"G", "u", "n", "U", "X", "g", "=", "=">>,
       <<"2", "d", "f", "b", "3", "c", "K", "R", "d", "7", "E", "h", "p", "q", "o", "b", "s", "J", "0", "V", "/", "Q", "=", "=">>>>,
     <<<<98, 98, 97>>,
       <<"P", "V", "6", "P", "M", "w", "=", "=">>,
       <<"/", "E", "U", "W", "A", "E", "I", "B", "f", "F", "I", "J", "p", "S", "T", "G", "q", "w", "+", "s", "J", "w", "=", "=">>>>,
     <<<<98, 98, 98>>,
       <<"L", "g", "5", "8", "x", "w", "=", "=">>,
       <<"C", "P", "j", "g", "J", "g", "x", "k", "Q", "Y", "U", "Q", "z", "v", "s", "r", "B", "u", "7", "l", "z", "Q", "=", "=">>>>}

\* The object's digests are the digests of its content.
DigestsMatch(obj) ==
    LET known == {d \in KnownDigests : d[1] = obj.Content}
    IN  IF known # {}
        THEN \A d \in known : obj.Crc32c = d[2] /\ obj.Md5Hash = d[3]
        ELSE /\ obj.Crc32c = encodedChecksum(crc32cChecksum(obj.Content))
             /\ obj.Md5Hash = encodedHash(md5Hash(obj.Content))

\* C12: every object in the store, put there by a simple, signed or multipart
\* upload or by a committing append, has the CRC32C and MD5 digests of its
\* stored content, and after every append that keeps the session the
\* session's digests are those of its whole accumulated content, the previous
\* content followed by the chunk.
C12_Digests ==
    /\ [](\A b \in DOMAIN buckets : \A i \in 1..Len(buckets[b]) : DigestsMatch(buckets[b][i]))
    /\ [][(AppendStep /\ last'.resp.data # <<>> /\ last'.uploadID \in DOMAIN uploads') =>
              /\ uploads'[last'.uploadID].Content =
                     uploads[last'.uploadID].Content \o last'.content
              /\ DigestsMatch(uploads'[last'.uploadID])]_vars

\* A second append has kept a session that now holds the bytes a, b with their
\* digests, while the store holds an object of two bytes with its digests.
C12_Witness ==
    /\ last.op = "append"
    /\ last.content = <<98>>
    /\ last.resp.status = StatusPermanentRedirect
    /\ last.uploadID \in DOMAIN uploads
    /\ uploads[last.uploadID].Content = <<97, 98>>
    /\ uploads[last.uploadID].Crc32c = <<"4", "q", "I", "p", "N", "g", "=", "=">>
    /\ \E i \in 1..Len(buckets[UploadBucket]) :
           /\ Len(buckets[UploadBucket][i].Content) = 2
           /\ DigestsMatch(buckets[UploadBucket][i])

(***************************************************************************)
(* How a request ends.                                                     *)
(***************************************************************************)

\* The response is an explicit result: the handler returned, with the object
\* or with an error (a message, or a status of the 4xx and 5xx ranges).
ExplicitResult(resp) ==
    /\ ~resp.panic
    /\ \/ resp.data # <<>>
       \/ resp.errorMessage # ""
       \/ resp.status >= StatusBadRequest

\* No bucket holds two objects of one name.
StoreConsistent(bs) ==
    \A b \in DOMAIN bs :
        \A i, j \in 1..Len(bs[b]) : bs[b][i].Name = bs[b][j].Name => i = j

\* C13: every multipart or signed upload request, whatever its body and
\* parameters, a multipart body without any section or with the metadata
\* section only included, ends in an explicit result, a stored object or an
\* error, and leaves no bucket with two objects of one name.
C13_ExplicitResult ==
    [][(last = noRequest /\ last' # noRequest) =>
           /\ ExplicitResult(last'.resp)
           /\ StoreConsistent(buckets')]_vars

(***************************************************************************)
(* parseContentRange applied to header values, one after another.          *)
(***************************************************************************)

MaxNumber == 3         \* largest number of the generated headers

ParseNumbers == {Itoa(n) : n \in 0..MaxNumber} \cup {<<"9", "9", "9">>, <<"2", "6", "0", "0">>}

\* What stands for the range: "*", a-b, and pieces that are no range.
ParseRanges ==
    {<<"*">>, <<>>, <<"0">>, <<"0", "-">>, <<"-", "0">>, <<"x", "-", "0">>, <<"0", "-", "x">>,
     <<"0", "-", "-", "1">>, <<"*", "-", "*">>}
    \cup {a \o <<"-">> \o b : a \in ParseNumbers, b \in ParseNumbers}

\* What stands for the total: "*", a number, and pieces that are none.
ParseTotals == {<<"*">>, <<>>, <<"x">>, <<"-", "1">>, <<"1", "/", "2">>} \cup ParseNumbers

\* The header values parsed: of the form bytes <range>/<total>, and without
\* the unit or without the slash.
ParseHeaders ==
    {contentRangeHeader(r, t) : r \in ParseRanges, t \in ParseTotals}
    \cup {<<>>, <<"0", "-", "0", "/", "1">>, bytesPrefix, bytesPrefix \o <<"0", "-", "0">>,
          <<"b", "y", "t", "e", "s">> \o <<"0", "-", "0", "/", "1">>}

\* parseContentRange(r) is called and its result kept.
ParseHeader(r) ==
    /\ last = noRequest
    /\ last' = [op |-> "parse", header |-> r, result |-> parseContentRange(r)]
    /\ UNCHANGED <<buckets, uploads, issued, pc, held, rw, local, client>>

NextParse ==
    \/ \E r \in ParseHeaders : ParseHeader(r)
    \/ Respond

SpecParse == Init /\ [][NextParse]_vars

\* The step is a call of parseContentRange.
ParseStep == last = noRequest /\ last'.op = "parse"

\* The call of this step succeeded with this contentRange.
ParsedAs(knownRange, start, end, knownTotal, total) ==
    /\ ~last'.result.err
    /\ last'.result.parsed = [KnownRange |-> knownRange, Start |-> start, End |-> end,
                              KnownTotal |-> knownTotal, Total |-> total]

\* C14: parseContentRange rejects bytes */*; whatever it parses successfully
\* has a known range or a known total, start = end = -1 for an unknown range
\* and total = -1 for an unknown total; bytes 0-999/2600 gives the known range
\* 0 to 999 with the known total 2600, bytes */2600 the unknown range with the
\* known total 2600, and bytes 0-999/* the known range 0 to 999 with the total
\* unknown.
C14_ParseContentRange ==
    [][ParseStep =>
          /\ last'.header = contentRangeHeader(<<"*">>, <<"*">>) => last'.result.err
          /\ ~last'.result.err =>
                 /\ last'.result.parsed.KnownRange \/ last'.result.parsed.KnownTotal
                 /\ ~last'.result.parsed.KnownRange =>
                        last'.result.parsed.Start = -1 /\ last'.result.parsed.End = -1
                 /\ ~last'.result.parsed.KnownTotal => last'.result.parsed.Total = -1
          /\ last'.header = contentRangeHeader(<<"0", "-", "9", "9", "9">>, <<"2", "6", "0", "0">>)
                 => ParsedAs(TRUE, 0, 999, TRUE, 2600)
          /\ last'.header = contentRangeHeader(<<"*">>, <<"2", "6", "0", "0">>)
                 => ParsedAs(FALSE, -1, -1, TRUE, 2600)
          /\ last'.header = contentRangeHeader(<<"0", "-", "9", "9", "9">>, <<"*">>)
                 => ParsedAs(TRUE, 0, 999, FALSE, -1)]_vars

\* bytes 0-999/* has been parsed: a known range with the total unknown.
C14_Witness ==
    /\ last.op = "parse"
    /\ last.header = contentRangeHeader(<<"0", "-", "9", "9", "9">>, <<"*">>)
    /\ ~last.result.err
    /\ last.result.parsed.KnownRange
    /\ ~last.result.parsed.KnownTotal
    /\ last.result.parsed.End = 999
    /\ last.result.parsed.Total = -1

(***************************************************************************)
(* The Range header the client of the resumable protocol is answered.      *)
(***************************************************************************)

\* The Range header for k as the last byte received: bytes=0-k.
rangeUpTo(k) == <<"b", "y", "t", "e", "s", "=", "0", "-">> \o Itoa(k)

SizeClass == 8

\* The backing array and the capacity of obj.Content; a nil slice has none.
sliceArray(obj) == IF "Array" \in DOMAIN obj THEN obj.Array ELSE 0
sliceCap(obj) == IF sliceArray(obj) = 0 THEN 0 ELSE SizeClass

\* The goroutines that hold a loaded object.
Loaded == {q \in Procs : pc[q] \in {"uappend", "udecide", "udelete", "ucreate", "ustore"}}

\* The backing arrays in use: of the sessions, the stored objects and the
\* objects the goroutines hold.
usedArrays ==
    {sliceArray(uploads[t]) : t \in DOMAIN uploads}
    \cup UNION {{sliceArray(buckets[b][i]) : i \in 1..Len(buckets[b])} : b \in DOMAIN buckets}
    \cup {sliceArray(local[q].obj) : q \in Loaded}

\* An array the allocator hands out: one that is not in use.
freshArray == CHOOSE a \in 1..(Cardinality(usedArrays) + 1) : a \notin usedArrays

\* The object h after content was written at the indices from l on into the
\* array a: what h shows of these indices, if a is its array, is the content.
written(h, a, l, content) ==
    IF sliceArray(h) # a THEN h
    ELSE [h EXCEPT !.Content =
             [i \in 1..Len(h.Content) |->
                 IF i > l /\ i <= l + Len(content) THEN content[i - l] ELSE h.Content[i]]]

\* PUT /upload/resumable/<uploadID> arrives and a goroutine enters
\* uploadFileContent: rawObj, ok := s.uploads.Load(uploadID), NotFound for !ok,
\* which changes nothing.  loaded notes the content the object has when it is
\* loaded.  A session takes at most MaxContent bytes.
UploadLoad(p, uploadID, content, contentRange) ==
    /\ pc[p] = "idle"
    /\ IF uploadID \notin DOMAIN uploads
       THEN UNCHANGED <<pc, local>>
       ELSE /\ Len(uploads[uploadID].Content) + Len(content) <= MaxContent
            /\ pc' = [pc EXCEPT ![p] = "uappend"]
            /\ local' = [local EXCEPT ![p] =
                            [op |-> "upload", uploadID |-> uploadID, content |-> content,
                             contentRange |-> contentRange, obj |-> uploads[uploadID],
                             loaded |-> uploads[uploadID].Content]]
    /\ UNCHANGED <<buckets, uploads, issued, last, held, rw, client>>

\* obj.Content = append(obj.Content, content...).  Nothing is appended for an
\* empty chunk; a chunk that fits the capacity is written into the array, where
\* every slice of that array shows it as far as the slice reaches; otherwise
\* the content moves to a new array.
UploadAppend(p) ==
    /\ pc[p] = "uappend"
    /\ pc' = [pc EXCEPT ![p] = "udecide"]
    /\ LET o == local[p].obj
           c == local[p].content
           l == Len(o.Content)
       IN  IF c = <<>>
           THEN UNCHANGED <<buckets, uploads, local>>
           ELSE IF l + Len(c) <= sliceCap(o)
           THEN /\ uploads' = [t \in DOMAIN uploads |->
                                  written(uploads[t], sliceArray(o), l, c)]
                /\ buckets' = [b \in DOMAIN buckets |->
                                  [i \in 1..Len(buckets[b]) |->
                                      written(buckets[b][i], sliceArray(o), l, c)]]
                /\ local' = [q \in Procs |->
                                IF q = p
                                THEN [local[p] EXCEPT !.obj.Content = o.Content \o c]
                                ELSE IF q \in Loaded
                                THEN [local[q] EXCEPT
                                         !.obj = written(local[q].obj, sliceArray(o), l, c)]
                                ELSE local[q]]
           ELSE /\ local' = [local EXCEPT ![p].obj =
                                 [BucketName |-> o.BucketName, Name |-> o.Name,
                                  Content |-> o.Content \o c,
                                  Crc32c |-> o.Crc32c, Md5Hash |-> o.Md5Hash,
                                  Array |-> freshArray]]
                /\ UNCHANGED <<buckets, uploads>>
    /\ UNCHANGED <<issued, last, held, rw, client>>

\* The object with the digests of the content it shows now.
digested(obj) ==
    [obj EXCEPT !.Crc32c = encodedCrc32cChecksum(obj.Content),
                !.Md5Hash = encodedMd5Hash(obj.Content)]

\* The digests are taken of obj.Content, the Content-Range header is parsed,
\* and the request is rejected, or goes on to commit, or to keep the session.
UploadDecide(p) ==
    /\ pc[p] = "udecide"
    /\ \E pr \in {parseContentRange(local[p].contentRange)} :
          IF local[p].contentRange # <<>> /\ pr.err
          THEN /\ pc' = [pc EXCEPT ![p] = "idle"]
               /\ local' = [local EXCEPT ![p] = <<>>]
          ELSE /\ pc' = [pc EXCEPT ![p] =
                            IF local[p].contentRange = <<>> \/ commitParsed(pr.parsed)
                            THEN "udelete" ELSE "ustore"]
               /\ local' = [local EXCEPT ![p].obj = digested(local[p].obj)]
    /\ UNCHANGED <<buckets, uploads, issued, last, held, rw, client>>

\* s.uploads.Delete(uploadID)
UploadDelete(p) ==
    /\ pc[p] = "udelete"
    /\ uploads' = uploadsDelete(uploads, local[p].uploadID)
    /\ pc' = [pc EXCEPT ![p] = "ucreate"]
    /\ UNCHANGED <<buckets, issued, last, held, rw, local, client>>

\* obj, err = s.createObject(obj), and the return.
UploadCreate(p) ==
    /\ pc[p] = "ucreate"
    /\ buckets' = createObject(buckets, local[p].obj)
    /\ pc' = [pc EXCEPT ![p] = "idle"]
    /\ local' = [local EXCEPT ![p] = <<>>]
    /\ UNCHANGED <<uploads, issued, last, held, rw, client>>

\* s.uploads.Store(uploadID, obj), and the return.
UploadStore(p) ==
    /\ pc[p] = "ustore"
    /\ uploads' = MapSet(uploads, local[p].uploadID, local[p].obj)
    /\ pc' = [pc EXCEPT ![p] = "idle"]
    /\ local' = [local EXCEPT ![p] = <<>>]
    /\ UNCHANGED <<buckets, issued, last, held, rw, client>>

\* POST ...?uploadType=resumable: resumableUpload registers a session under an
\* id generateUploadID has not drawn before.
SessionStart(uploadID, name) ==
    /\ uploadID \notin issued
    /\ \E out \in {resumableUpload(uploads, buckets, UploadBucket, name, FALSE, name,
                                    uploadID, FALSE)} :
          /\ uploads' = out.uploads
          /\ issued' = issued \cup {uploadID}
    /\ UNCHANGED <<buckets, last, pc, held, rw, local, client>>

\* The Content-Range values of the concurrent appends: none, which commits,
\* and a chunk of a stream, which keeps the session.
AppendRanges == {<<>>, contentRangeHeader(<<"0", "-", "0">>, <<"*">>)}

\* The chunk the client of goroutine p sends: one byte, and not the byte of the
\* next goroutine's client, so that the content tells whose chunk it holds.
chunkOf(p) == <<97 + (p % 2)>>

NextAppend ==
    \/ \E uploadID \in UploadIDs, name \in UploadNames : SessionStart(uploadID, name)
    \/ \E p \in Procs :
          \/ \E uploadID \in UploadIDs, contentRange \in AppendRanges :
                 UploadLoad(p, uploadID, chunkOf(p), contentRange)
          \/ UploadAppend(p)
          \/ UploadDecide(p)
          \/ UploadDelete(p)
          \/ UploadCreate(p)
          \/ UploadStore(p)

SpecAppend == Init /\ [][NextAppend]_vars

(***************************************************************************)
(* C16: concurrent appends to one session are last-write-wins.  Whenever   *)
(* an append stores the session back, the session holds the content that   *)
(* append loaded followed by that append's chunk, with the digests of that *)
(* content (of two appends that loaded the same content, the chunk of the  *)
(* other is lost), and it keeps holding it until an append on the same     *)
(* token stores again: a session changes by nothing but a store on its own *)
(* token, so appends on another token do not affect it.                    *)
(***************************************************************************)
C16_LastWriteWins ==
    [][\A t \in UploadIDs :
          /\ \A p \in Procs :
                (UploadStore(p) /\ local[p].uploadID = t) =>
                    /\ uploads'[t].Content = local[p].loaded \o local[p].content
                    /\ uploads'[t].Crc32c = encodedCrc32cChecksum(uploads'[t].Content)
                    /\ uploads'[t].Md5Hash = encodedMd5Hash(uploads'[t].Content)
          /\ (t \in DOMAIN uploads /\ t \in DOMAIN uploads' /\ uploads'[t] # uploads[t]) =>
                \E p \in Procs : UploadStore(p) /\ local[p].uploadID = t]_vars

(***************************************************************************)
(* C19: once an append has committed and removed the session, the token is *)
(* never again in the session table, in every interleaving, and a session  *)
(* leads to at most one create.  A token that was issued and is not in the *)
(* table has been removed by a commit: no step puts it back.  And every    *)
(* commit removes the session itself when it deletes the token: no commit  *)
(* finds the session already removed by another commit, so no two commits  *)
(* create an object for one session.                                       *)
(***************************************************************************)
C19_CommittedOnce ==
    [][\A t \in UploadIDs :
          /\ (t \in issued /\ t \notin DOMAIN uploads) => t \notin DOMAIN uploads'
          /\ \A p \in Procs :
                (UploadDelete(p) /\ local[p].uploadID = t) => t \in DOMAIN uploads]_vars

(***************************************************************************)
(* Multipart uploads served concurrently, one goroutine each: the body is  *)
(* read and the preconditions are checked against the store, then the      *)
(* object is created, then the response is returned.                       *)
(***************************************************************************)

\* The bodies of the concurrent uploads: metadata naming "o", then the content.
RaceParts ==
    {<<[jsonErr |-> "", Name |-> <<"o">>, data |-> <<>>],
       [jsonErr |-> "", Name |-> <<>>, data |-> content]>> : content \in Bodies \ {<<>>}}

\* A multipart upload arrives and a goroutine serves it up to
\* s.checkUploadPreconditions, which looks the object up in the store: the
\* response is its status, or the goroutine goes on to create the object.
MultipartCheck(p, parts, ifGenerationMatch) ==
    /\ pc[p] = "idle"
    /\ \E read \in {readParts(parts, 1, <<>>, <<>>, FALSE)} :
       \E pre \in {checkUploadPreconditions(buckets, ifGenerationMatch, "", UploadBucket,
                                            read.metadata[1].Name)} :
          IF pre # 0
          THEN /\ pc' = [pc EXCEPT ![p] = "mreturn"]
               /\ local' = [local EXCEPT ![p] =
                               [op |-> "multipart", ifGenerationMatch |-> ifGenerationMatch,
                                resp |-> jsonResponse(pre, "Precondition failed", <<>>,
                                                      noHeader)]]
          ELSE /\ pc' = [pc EXCEPT ![p] = "mcreate"]
               /\ local' = [local EXCEPT ![p] =
                               [op |-> "multipart", ifGenerationMatch |-> ifGenerationMatch,
                                obj |-> newObject(UploadBucket, read.metadata[1].Name,
                                                  read.content)]]
    /\ UNCHANGED <<buckets, uploads, issued, last, held, rw, client>>

\* obj, err = s.createObject(obj)
MultipartCreate(p) ==
    /\ pc[p] = "mcreate"
    /\ buckets' = createObject(buckets, local[p].obj)
    /\ pc' = [pc EXCEPT ![p] = "mreturn"]
    /\ local' = [local EXCEPT ![p] =
                    [op |-> "multipart", ifGenerationMatch |-> local[p].ifGenerationMatch,
                     resp |-> jsonResponse(0, "", <<local[p].obj>>, noHeader)]]
    /\ UNCHANGED <<uploads, issued, last, held, rw, client>>

\* return jsonResponse{...}
MultipartReturn(p) ==
    /\ pc[p] = "mreturn"
    /\ pc' = [pc EXCEPT ![p] = "idle"]
    /\ local' = [local EXCEPT ![p] = <<>>]
    /\ UNCHANGED <<buckets, uploads, issued, last, held, rw, client>>

NextRace ==
    \E p \in Procs :
       \/ \E parts \in RaceParts, ifGenerationMatch \in {"", "0"} :
              MultipartCheck(p, parts, ifGenerationMatch)
       \/ MultipartCreate(p)
       \/ MultipartReturn(p)

SpecRace == Init /\ [][NextRace]_vars

(***************************************************************************)
(* C20: a multipart upload with ifGenerationMatch=0 never overwrites an    *)
(* existing object, in every interleaving.  Whenever such an upload        *)
(* creates its object, no object is stored under that bucket and name: of  *)
(* two concurrent uploads for a name not stored yet at most one creates,   *)
(* the other having failed its check with PreconditionFailed.              *)
(***************************************************************************)
C20_NeverOverwrites ==
    [][\A p \in Procs :
          (MultipartCreate(p) /\ local[p].ifGenerationMatch = "0") =>
              ~objectExists(buckets, local[p].obj.BucketName, local[p].obj.Name)]_vars

\* The step serves the initiation of a session, or a chunk append that does
\* not remove a session: one that is rejected or keeps the session.
PartialStep ==
    /\ last = noRequest
    /\ \/ last'.op = "initiate"
       \/ /\ last'.op = "append"
          /\ ~(last'.uploadID \in DOMAIN uploads /\ last'.uploadID \notin DOMAIN uploads')

(***************************************************************************)
(* C18: partial resumable uploads are invisible in the object store.  The  *)
(* initiation of a session and every chunk append that does not commit,    *)
(* rejected or not, leave the store as it is: GetObject answers for every  *)
(* name what it answered before, an object stored before under the name of *)
(* the session included, and ListObjects lists what it listed before.  The *)
(* object of a session is thus returned only once an append has committed. *)
(***************************************************************************)
C18_PartialInvisible ==
    [][PartialStep =>
          /\ buckets' = buckets
          /\ \A name \in UploadNames :
                GetObject(buckets', UploadBucket, name) = GetObject(buckets, UploadBucket, name)
          /\ ListObjects(buckets', UploadBucket, <<>>, <<>>).objects
                = ListObjects(buckets, UploadBucket, <<>>, <<>>).objects]_vars

\* An append has left one byte in a session for "o", and the store still holds
\* the object stored before under that name, with another content.
C18_Witness ==
    /\ last.op = "append"
    /\ last.uploadID \in DOMAIN uploads
    /\ uploads[last.uploadID].Name = <<"o">>
    /\ uploads[last.uploadID].Content = <<98>>
    /\ Stored(buckets, UploadBucket, <<"o">>, <<97>>)

====
